---- MODULE Spec2Model ----
(***************************************************************************)
(* Security resolution of the Kafka operator: the KafkaTlsSecurity helper  *)
(* (rust/crd/src/security.rs), the CRD level configuration                 *)
(* (rust/crd/src/lib.rs) and the container commands                        *)
(* (rust/operator/src/command.rs).                                         *)
(*                                                                         *)
(* A reconciliation pass reads one KafkaCluster object, resolves its       *)
(* authentication classes into a KafkaTlsSecurity value and then derives   *)
(* ports, init container commands, volumes and server.properties from it.  *)
(* Every derivation is a pure function of its input; the variable `out`    *)
(* holds the result of the operation that ran last.                        *)
(*                                                                         *)
(* Option<T> is modelled as a sequence: None is <<>>, Some(x) is <<x>>.    *)
(* A BTreeMap<String, String> is a function from its keys to its values.   *)
(***************************************************************************)
EXTENDS Integers, Sequences, FiniteSets, TLC

VARIABLES
    kafka,      \* the KafkaCluster object of this reconciliation pass
    pc,         \* "parsed", "resolved" or "failed"
    security,   \* Option<KafkaTlsSecurity>
    error,      \* Option<Error> of new_from_kafka_cluster
    out,        \* [op |-> name of the last operation, value |-> its result]
    init_phase  \* the prepare container: its steps, their exit codes, its status

vars == <<kafka, pc, security, error, out, init_phase>>

----------------------------------------------------------------------------
(* Option and map helpers *)

None == <<>>
Some(x) == <<x>>
is_some(o) == o # None
unwrap(o) == o[1]
\* Option::or
or(a, b) == IF is_some(a) THEN a ELSE b

EmptyMap == [k \in {} |-> ""]
\* BTreeMap::insert
insert(m, k, v) == [x \in (DOMAIN m) \cup {k} |-> IF x = k THEN v ELSE m[x]]

----------------------------------------------------------------------------
(* Bounds and input domains *)

\* longest list of authentication class references in a cluster object
MaxAuthRefs == 2

\* secret class names a cluster object may use ("" is the explicit opt-out
\* of internal TLS, "tls" the default of the internal secret class)
ServerSecretClasses == {None, Some("s")}
InternalSecretClasses == {"", "tls"}

\* names of AuthenticationClass objects a cluster object may refer to
AuthClassNames == {"tls-plain", "tls-o", "ldap", "missing", "unreachable"}

----------------------------------------------------------------------------
(* Constants of KafkaTlsSecurity (security.rs) *)

CLIENT_PORT_NAME == "kafka"
CLIENT_PORT == 9092
SECURE_CLIENT_PORT_NAME == "kafka-tls"
SECURE_CLIENT_PORT == 9093
INTERNAL_PORT == 19092
SECURE_INTERNAL_PORT == 19093
SSL_STORE_PASSWORD == "changeit"
CLIENT_SSL_KEYSTORE_LOCATION == "listener.name.client.ssl.keystore.location"
CLIENT_SSL_KEYSTORE_PASSWORD == "listener.name.client.ssl.keystore.password"
CLIENT_SSL_KEYSTORE_TYPE == "listener.name.client.ssl.keystore.type"
CLIENT_SSL_TRUSTSTORE_LOCATION == "listener.name.client.ssl.truststore.location"
CLIENT_SSL_TRUSTSTORE_PASSWORD == "listener.name.client.ssl.truststore.password"
CLIENT_SSL_TRUSTSTORE_TYPE == "listener.name.client.ssl.truststore.type"
CLIENT_AUTH_SSL_KEYSTORE_LOCATION == "listener.name.client_auth.ssl.keystore.location"
CLIENT_AUTH_SSL_KEYSTORE_PASSWORD == "listener.name.client_auth.ssl.keystore.password"
CLIENT_AUTH_SSL_KEYSTORE_TYPE == "listener.name.client_auth.ssl.keystore.type"
CLIENT_AUTH_SSL_TRUSTSTORE_LOCATION == "listener.name.client_auth.ssl.truststore.location"
CLIENT_AUTH_SSL_TRUSTSTORE_PASSWORD == "listener.name.client_auth.ssl.truststore.password"
CLIENT_AUTH_SSL_TRUSTSTORE_TYPE == "listener.name.client_auth.ssl.truststore.type"
CLIENT_AUTH_SSL_CLIENT_AUTH == "listener.name.client_auth.ssl.client.auth"
INTER_BROKER_LISTENER_NAME == "inter.broker.listener.name"
INTER_SSL_KEYSTORE_LOCATION == "listener.name.internal.ssl.keystore.location"
INTER_SSL_KEYSTORE_PASSWORD == "listener.name.internal.ssl.keystore.password"
INTER_SSL_KEYSTORE_TYPE == "listener.name.internal.ssl.keystore.type"
INTER_SSL_TRUSTSTORE_LOCATION == "listener.name.internal.ssl.truststore.location"
INTER_SSL_TRUSTSTORE_PASSWORD == "listener.name.internal.ssl.truststore.password"
INTER_SSL_TRUSTSTORE_TYPE == "listener.name.internal.ssl.truststore.type"
INTER_SSL_CLIENT_AUTH == "listener.name.internal.ssl.client.auth"
SYSTEM_TRUST_STORE_DIR == "/etc/pki/java/cacerts"
STACKABLE_TLS_CERT_SERVER_MOUNT_DIR == "/stackable/tls_cert_server_mount"
STACKABLE_TLS_CERT_SERVER_MOUNT_DIR_NAME == "tls-cert-server-mount"
STACKABLE_TLS_KEYSTORE_SERVER_MOUNT_DIR == "/stackable/tls_keystore_server_mount"
STACKABLE_TLS_KEYSTORE_SERVER_MOUNT_DIR_NAME == "tls-keystore-server-mount"
STACKABLE_TLS_KEYSTORE_SERVER_DIR == "/stackable/tls_keystore_server"
STACKABLE_TLS_KEYSTORE_SERVER_DIR_NAME == "tls-keystore-server"
STACKABLE_TLS_KEYSTORE_INTERNAL_MOUNT_DIR == "/stackable/tls_keystore_internal_mount"
STACKABLE_TLS_KEYSTORE_INTERNAL_MOUNT_DIR_NAME == "tls-keystore-internal-mount"
STACKABLE_TLS_KEYSTORE_INTERNAL_DIR == "/stackable/tls_keystore_internal"
STACKABLE_TLS_KEYSTORE_INTERNAL_DIR_NAME == "tls-keystore-internal"

\* listener::KafkaListenerName::Internal.to_string()
KafkaListenerName_Internal == "internal"

\* tls::internal_tls_default()
internal_tls_default == "tls"

----------------------------------------------------------------------------
(* The Authentication Resolver: authentication class references are looked *)
(* up in the cluster and validated.                                        *)

\* an AuthenticationClass with spec.provider = Tls { client_cert_secret_class }
TlsClass(name, secret_class) ==
    [name |-> name, provider |-> "Tls", client_cert_secret_class |-> secret_class]
\* an AuthenticationClass of a provider the operator does not support
OtherClass(name) ==
    [name |-> name, provider |-> "Ldap", client_cert_secret_class |-> None]

\* Result values: Ok(v) and Err(e)
Ok(v) == [ok |-> TRUE, value |-> v, err |-> ""]
Err(e) == [ok |-> FALSE, value |-> None, err |-> e]

\* the AuthenticationClass objects of the cluster: the result of looking a
\* reference up
lookup_authentication_class(name) ==
    CASE name = "tls-plain"   -> Ok(TlsClass(name, None))
      [] name = "tls-o"       -> Ok(TlsClass(name, Some("o")))
      [] name = "ldap"        -> Ok(OtherClass(name))
      [] name = "unreachable" -> Err("TransportError")
      [] OTHER                -> Err("NotFound")

RECURSIVE resolve_all(_)
\* the classes the references resolve to, in the order of the references;
\* the first failing lookup or unsupported provider ends the resolution
resolve_all(refs) ==
    IF refs = <<>> THEN Ok(<<>>)
    ELSE LET first == lookup_authentication_class(Head(refs)) IN
         IF ~first.ok THEN Err(first.err)
         ELSE IF first.value.provider # "Tls" THEN Err("AuthenticationProviderNotSupported")
         ELSE LET rest == resolve_all(Tail(refs)) IN
              IF ~rest.ok THEN rest ELSE Ok(<<first.value>> \o rest.value)

\* ResolvedAuthenticationClasses::from_references: the possible results.
\* At most one class of the TLS provider is kept: several of them are
\* either rejected or resolved to the first one.
from_references(refs) ==
    LET all == resolve_all(refs) IN
    IF ~all.ok THEN {all}
    ELSE IF Len(all.value) > 1
    THEN {Err("MultipleAuthenticationClassesProvided"), Ok(<<Head(all.value)>>)}
    ELSE {all}

RECURSIVE find_tls(_)
find_tls(classes) ==
    IF classes = <<>> THEN None
    ELSE IF Head(classes).provider = "Tls" THEN Some(Head(classes))
    ELSE find_tls(Tail(classes))

\* ResolvedAuthenticationClasses::get_tls_authentication_class: the first
\* resolved class of the TLS provider
get_tls_authentication_class(resolved) == find_tls(resolved)

----------------------------------------------------------------------------
(* KafkaTlsSecurity (security.rs): accessors and port facts *)

\* KafkaTlsSecurity::new
new(resolved_authentication_classes, internal_secret_class, server_secret_class) ==
    [resolved_authentication_classes |-> resolved_authentication_classes,
     internal_secret_class |-> internal_secret_class,
     server_secret_class |-> server_secret_class]

tls_server_secret_class(self) == self.server_secret_class

tls_client_authentication_class(self) ==
    get_tls_authentication_class(self.resolved_authentication_classes)

\* tls_enabled requiring both an authentication class and a server secret class
tls_enabled_both(self) ==
    is_some(tls_client_authentication_class(self)) /\ is_some(tls_server_secret_class(self))

\* tls_enabled that also counts the internal secret class
tls_enabled_any_scope(self) ==
    \/ is_some(tls_client_authentication_class(self))
    \/ is_some(tls_server_secret_class(self))
    \/ self.internal_secret_class # ""

tls_enabled(self) ==
    is_some(tls_client_authentication_class(self)) \/ is_some(tls_server_secret_class(self))

\* tls_internal_secret_class without the check for the empty string
tls_internal_secret_class_unchecked(self) == Some(self.internal_secret_class)

tls_internal_secret_class(self) ==
    IF self.internal_secret_class # "" THEN Some(self.internal_secret_class) ELSE None

\* client_port with the two ports exchanged
client_port_exchanged(self) ==
    IF tls_enabled(self) THEN CLIENT_PORT ELSE SECURE_CLIENT_PORT

client_port(self) ==
    IF tls_enabled(self) THEN SECURE_CLIENT_PORT ELSE CLIENT_PORT

\* client_port_name that never selects the secure name
client_port_name_plain(self) == CLIENT_PORT_NAME

client_port_name(self) ==
    IF tls_enabled(self) THEN SECURE_CLIENT_PORT_NAME ELSE CLIENT_PORT_NAME

internal_port(self) ==
    IF is_some(tls_internal_secret_class(self)) THEN SECURE_INTERNAL_PORT ELSE INTERNAL_PORT

\* get_tls_secret_class preferring the server secret class
get_tls_secret_class_server_first(self) ==
    LET auth == get_tls_authentication_class(self.resolved_authentication_classes)
        from_class == IF is_some(auth)
                      THEN unwrap(auth).client_cert_secret_class
                      ELSE None
    IN  or(self.server_secret_class, from_class)

get_tls_secret_class(self) ==
    LET auth == get_tls_authentication_class(self.resolved_authentication_classes)
        from_class == IF is_some(auth)
                      THEN (IF unwrap(auth).provider = "Tls"
                            THEN unwrap(auth).client_cert_secret_class
                            ELSE None)
                      ELSE None
    IN  or(from_class, self.server_secret_class)

----------------------------------------------------------------------------
(* KafkaTlsSecurity: init container commands.  Every command is the string *)
(* the code formats.                                                       *)

import_keystore(source_directory, destination_directory) ==
    << "echo Importing " \o source_directory \o "/keystore.p12 to "
           \o destination_directory \o "/keystore.p12",
       "keytool -importkeystore -srckeystore " \o source_directory
           \o "/keystore.p12 -srcstoretype PKCS12 -srcstorepass \"\" -destkeystore "
           \o destination_directory
           \o "/keystore.p12 -deststoretype PKCS12 -deststorepass "
           \o SSL_STORE_PASSWORD \o " -noprompt" >>

\* import_truststore with an alias that is generated when the command is
\* rendered, so that it differs with what was rendered before
import_truststore_rendered_alias(source_directory, destination_directory) ==
    << "echo Importing " \o source_directory \o "/truststore.p12 to "
           \o destination_directory \o "/truststore.p12",
       "keytool -importkeystore -srckeystore " \o source_directory
           \o "/truststore.p12 -srcstoretype PKCS12 -srcstorepass \"\" -srcalias 1 -destkeystore "
           \o destination_directory
           \o "/truststore.p12 -deststoretype PKCS12 -deststorepass "
           \o SSL_STORE_PASSWORD
           \o " -destalias uuid-after-" \o out.op \o " -noprompt" >>

import_truststore(source_directory, destination_directory) ==
    << "echo Importing " \o source_directory \o "/truststore.p12 to "
           \o destination_directory \o "/truststore.p12",
       "keytool -importkeystore -srckeystore " \o source_directory
           \o "/truststore.p12 -srcstoretype PKCS12 -srcstorepass \"\" -srcalias 1 -destkeystore "
           \o destination_directory
           \o "/truststore.p12 -deststoretype PKCS12 -deststorepass "
           \o SSL_STORE_PASSWORD
           \o " -destalias $(cat /proc/sys/kernel/random/uuid) -noprompt" >>

import_system_truststore(destination_directory) ==
    << "echo Importing " \o SYSTEM_TRUST_STORE_DIR \o " to "
           \o destination_directory \o "/truststore.p12",
       "keytool -importkeystore -srckeystore " \o SYSTEM_TRUST_STORE_DIR
           \o " -srcstoretype jks -srcstorepass " \o SSL_STORE_PASSWORD
           \o " -destkeystore " \o destination_directory
           \o "/truststore.p12 -deststoretype pkcs12 -deststorepass "
           \o SSL_STORE_PASSWORD \o " -noprompt" >>

\* the external-scope part of prepare_container_command_args
prepare_external_args(self) ==
    IF is_some(tls_client_authentication_class(self))
    THEN import_keystore(STACKABLE_TLS_KEYSTORE_SERVER_MOUNT_DIR,
                         STACKABLE_TLS_KEYSTORE_SERVER_DIR)
         \o import_truststore(STACKABLE_TLS_KEYSTORE_SERVER_MOUNT_DIR,
                              STACKABLE_TLS_KEYSTORE_SERVER_DIR)
    ELSE IF is_some(tls_server_secret_class(self))
    THEN import_system_truststore(STACKABLE_TLS_KEYSTORE_SERVER_DIR)
         \o import_keystore(STACKABLE_TLS_KEYSTORE_SERVER_MOUNT_DIR,
                            STACKABLE_TLS_KEYSTORE_SERVER_DIR)
         \o import_truststore(STACKABLE_TLS_KEYSTORE_SERVER_MOUNT_DIR,
                              STACKABLE_TLS_KEYSTORE_SERVER_DIR)
    ELSE <<>>

\* the internal-scope part of prepare_container_command_args
prepare_internal_args(self) ==
    IF is_some(tls_internal_secret_class(self))
    THEN import_keystore(STACKABLE_TLS_KEYSTORE_INTERNAL_MOUNT_DIR,
                         STACKABLE_TLS_KEYSTORE_INTERNAL_DIR)
         \o import_truststore(STACKABLE_TLS_KEYSTORE_INTERNAL_MOUNT_DIR,
                              STACKABLE_TLS_KEYSTORE_INTERNAL_DIR)
    ELSE <<>>

\* prepare_container_command_args with the internal scope first
prepare_container_command_args_internal_first(self) ==
    prepare_internal_args(self) \o prepare_external_args(self)

prepare_container_command_args(self) ==
    prepare_external_args(self) \o prepare_internal_args(self)

----------------------------------------------------------------------------
(* KafkaTlsSecurity: volumes and volume mounts.  The builders are the pod  *)
(* builder's volume list and the three containers' volume mount lists.     *)

NewBuilders ==
    [pod_builder |-> <<>>, cb_prepare |-> <<>>, cb_kcat_prober |-> <<>>, cb_kafka |-> <<>>]

\* ContainerBuilder::add_volume_mount
VolumeMount(name, path) == [name |-> name, mount_path |-> path]

\* an ephemeral secret-operator volume with pod and node scope
create_tls_volume(volume_name, secret_class_name) ==
    [name |-> volume_name, kind |-> "ephemeral-secret",
     secret_class |-> secret_class_name, scope |-> {"pod", "node"}, format |-> None]

\* the same volume in the PKCS12 keystore format
create_tls_keystore_volume(volume_name, secret_class_name) ==
    [name |-> volume_name, kind |-> "ephemeral-secret",
     secret_class |-> secret_class_name, scope |-> {"pod", "node"},
     format |-> Some("tls-pkcs12")]

\* VolumeBuilder::new(name).with_empty_dir(Some(""), None)
EmptyDirVolume(volume_name) ==
    [name |-> volume_name, kind |-> "empty-dir",
     secret_class |-> "", scope |-> {}, format |-> None]

\* add_external_volumes backing the keystore volume with the server secret
\* class whenever one is set
add_external_volumes_server_class(self, b) ==
    LET class == get_tls_secret_class(self)
        keystore_class == or(self.server_secret_class, class) IN
    IF is_some(class)
    THEN [pod_builder |-> b.pod_builder \o
              << create_tls_volume(STACKABLE_TLS_CERT_SERVER_MOUNT_DIR_NAME, unwrap(class)),
                 create_tls_keystore_volume(STACKABLE_TLS_KEYSTORE_SERVER_MOUNT_DIR_NAME,
                                            unwrap(keystore_class)),
                 EmptyDirVolume(STACKABLE_TLS_KEYSTORE_SERVER_DIR_NAME) >>,
          cb_kcat_prober |-> b.cb_kcat_prober \o
              << VolumeMount(STACKABLE_TLS_CERT_SERVER_MOUNT_DIR_NAME,
                             STACKABLE_TLS_CERT_SERVER_MOUNT_DIR) >>,
          cb_prepare |-> b.cb_prepare \o
              << VolumeMount(STACKABLE_TLS_KEYSTORE_SERVER_MOUNT_DIR_NAME,
                             STACKABLE_TLS_KEYSTORE_SERVER_MOUNT_DIR),
                 VolumeMount(STACKABLE_TLS_KEYSTORE_SERVER_DIR_NAME,
                             STACKABLE_TLS_KEYSTORE_SERVER_DIR) >>,
          cb_kafka |-> b.cb_kafka \o
              << VolumeMount(STACKABLE_TLS_KEYSTORE_SERVER_DIR_NAME,
                             STACKABLE_TLS_KEYSTORE_SERVER_DIR) >>]
    ELSE b

\* the volumes of the external scope (server TLS or client authentication)
add_external_volumes(self, b) ==
    LET class == get_tls_secret_class(self) IN
    IF is_some(class)
    THEN [pod_builder |-> b.pod_builder \o
              << create_tls_volume(STACKABLE_TLS_CERT_SERVER_MOUNT_DIR_NAME, unwrap(class)),
                 create_tls_keystore_volume(STACKABLE_TLS_KEYSTORE_SERVER_MOUNT_DIR_NAME,
                                            unwrap(class)),
                 EmptyDirVolume(STACKABLE_TLS_KEYSTORE_SERVER_DIR_NAME) >>,
          cb_kcat_prober |-> b.cb_kcat_prober \o
              << VolumeMount(STACKABLE_TLS_CERT_SERVER_MOUNT_DIR_NAME,
                             STACKABLE_TLS_CERT_SERVER_MOUNT_DIR) >>,
          cb_prepare |-> b.cb_prepare \o
              << VolumeMount(STACKABLE_TLS_KEYSTORE_SERVER_MOUNT_DIR_NAME,
                             STACKABLE_TLS_KEYSTORE_SERVER_MOUNT_DIR),
                 VolumeMount(STACKABLE_TLS_KEYSTORE_SERVER_DIR_NAME,
                             STACKABLE_TLS_KEYSTORE_SERVER_DIR) >>,
          cb_kafka |-> b.cb_kafka \o
              << VolumeMount(STACKABLE_TLS_KEYSTORE_SERVER_DIR_NAME,
                             STACKABLE_TLS_KEYSTORE_SERVER_DIR) >>]
    ELSE b

\* the volumes of the internal scope
add_internal_volumes(self, b) ==
    LET class == tls_internal_secret_class(self) IN
    IF is_some(class)
    THEN [pod_builder |-> b.pod_builder \o
              << create_tls_keystore_volume(STACKABLE_TLS_KEYSTORE_INTERNAL_MOUNT_DIR_NAME,
                                            unwrap(class)),
                 EmptyDirVolume(STACKABLE_TLS_KEYSTORE_INTERNAL_DIR_NAME) >>,
          cb_kcat_prober |-> b.cb_kcat_prober,
          cb_prepare |-> b.cb_prepare \o
              << VolumeMount(STACKABLE_TLS_KEYSTORE_INTERNAL_MOUNT_DIR_NAME,
                             STACKABLE_TLS_KEYSTORE_INTERNAL_MOUNT_DIR),
                 VolumeMount(STACKABLE_TLS_KEYSTORE_INTERNAL_DIR_NAME,
                             STACKABLE_TLS_KEYSTORE_INTERNAL_DIR) >>,
          cb_kafka |-> b.cb_kafka \o
              << VolumeMount(STACKABLE_TLS_KEYSTORE_INTERNAL_DIR_NAME,
                             STACKABLE_TLS_KEYSTORE_INTERNAL_DIR) >>]
    ELSE b

add_volume_and_volume_mounts(self, b) ==
    add_internal_volumes(self, add_external_volumes(self, b))

----------------------------------------------------------------------------
(* KafkaTlsSecurity: the settings of server.properties *)

\* the plain client TLS keys, emitted whenever a server secret class is set
plain_client_keys(self, config) ==
    IF is_some(tls_server_secret_class(self))
    THEN LET c1 == insert(config, CLIENT_SSL_KEYSTORE_LOCATION,
                          STACKABLE_TLS_KEYSTORE_SERVER_DIR \o "/keystore.p12")
             c2 == insert(c1, CLIENT_SSL_KEYSTORE_PASSWORD, SSL_STORE_PASSWORD)
             c3 == insert(c2, CLIENT_SSL_KEYSTORE_TYPE, "PKCS12")
             c4 == insert(c3, CLIENT_SSL_TRUSTSTORE_LOCATION,
                          STACKABLE_TLS_KEYSTORE_SERVER_DIR \o "/truststore.p12")
             c5 == insert(c4, CLIENT_SSL_TRUSTSTORE_PASSWORD, SSL_STORE_PASSWORD)
         IN  insert(c5, CLIENT_SSL_TRUSTSTORE_TYPE, "PKCS12")
    ELSE config

\* client_config_settings with two independent branches instead of if / else if
client_config_settings_additive(self, config) ==
    IF is_some(tls_client_authentication_class(self))
    THEN LET c1 == insert(plain_client_keys(self, config),
                          CLIENT_AUTH_SSL_KEYSTORE_LOCATION,
                          STACKABLE_TLS_KEYSTORE_SERVER_DIR \o "/keystore.p12")
             c2 == insert(c1, CLIENT_AUTH_SSL_KEYSTORE_PASSWORD, SSL_STORE_PASSWORD)
             c3 == insert(c2, CLIENT_AUTH_SSL_KEYSTORE_TYPE, "PKCS12")
             c4 == insert(c3, CLIENT_AUTH_SSL_TRUSTSTORE_LOCATION,
                          STACKABLE_TLS_KEYSTORE_SERVER_DIR \o "/truststore.p12")
             c5 == insert(c4, CLIENT_AUTH_SSL_TRUSTSTORE_PASSWORD, SSL_STORE_PASSWORD)
             c6 == insert(c5, CLIENT_AUTH_SSL_TRUSTSTORE_TYPE, "PKCS12")
         IN  insert(c6, CLIENT_AUTH_SSL_CLIENT_AUTH, "required")
    ELSE plain_client_keys(self, config)

\* the keys of the client scope: client authentication or plain client TLS
client_config_settings(self, config) ==
    IF is_some(tls_client_authentication_class(self))
    THEN LET c1 == insert(config, CLIENT_AUTH_SSL_KEYSTORE_LOCATION,
                          STACKABLE_TLS_KEYSTORE_SERVER_DIR \o "/keystore.p12")
             c2 == insert(c1, CLIENT_AUTH_SSL_KEYSTORE_PASSWORD, SSL_STORE_PASSWORD)
             c3 == insert(c2, CLIENT_AUTH_SSL_KEYSTORE_TYPE, "PKCS12")
             c4 == insert(c3, CLIENT_AUTH_SSL_TRUSTSTORE_LOCATION,
                          STACKABLE_TLS_KEYSTORE_SERVER_DIR \o "/truststore.p12")
             c5 == insert(c4, CLIENT_AUTH_SSL_TRUSTSTORE_PASSWORD, SSL_STORE_PASSWORD)
             c6 == insert(c5, CLIENT_AUTH_SSL_TRUSTSTORE_TYPE, "PKCS12")
         IN  insert(c6, CLIENT_AUTH_SSL_CLIENT_AUTH, "required")
    ELSE IF is_some(tls_server_secret_class(self))
    THEN LET c1 == insert(config, CLIENT_SSL_KEYSTORE_LOCATION,
                          STACKABLE_TLS_KEYSTORE_SERVER_DIR \o "/keystore.p12")
             c2 == insert(c1, CLIENT_SSL_KEYSTORE_PASSWORD, SSL_STORE_PASSWORD)
             c3 == insert(c2, CLIENT_SSL_KEYSTORE_TYPE, "PKCS12")
             c4 == insert(c3, CLIENT_SSL_TRUSTSTORE_LOCATION,
                          STACKABLE_TLS_KEYSTORE_SERVER_DIR \o "/truststore.p12")
             c5 == insert(c4, CLIENT_SSL_TRUSTSTORE_PASSWORD, SSL_STORE_PASSWORD)
         IN  insert(c5, CLIENT_SSL_TRUSTSTORE_TYPE, "PKCS12")
    ELSE config

\* internal_config_settings nested under the client branch: the internal
\* keys are emitted only when client TLS is enabled too
internal_config_settings_nested(self, config) ==
    IF is_some(tls_internal_secret_class(self)) /\ tls_enabled(self)
    THEN LET c1 == insert(config, INTER_SSL_KEYSTORE_LOCATION,
                          STACKABLE_TLS_KEYSTORE_INTERNAL_DIR \o "/keystore.p12")
             c2 == insert(c1, INTER_SSL_KEYSTORE_PASSWORD, SSL_STORE_PASSWORD)
             c3 == insert(c2, INTER_SSL_KEYSTORE_TYPE, "PKCS12")
             c4 == insert(c3, INTER_SSL_TRUSTSTORE_LOCATION,
                          STACKABLE_TLS_KEYSTORE_INTERNAL_DIR \o "/truststore.p12")
             c5 == insert(c4, INTER_SSL_TRUSTSTORE_PASSWORD, SSL_STORE_PASSWORD)
             c6 == insert(c5, INTER_SSL_TRUSTSTORE_TYPE, "PKCS12")
         IN  insert(c6, INTER_SSL_CLIENT_AUTH, "required")
    ELSE config

\* internal_config_settings pointing at the stores of the secret mount
internal_config_settings_mount_dir(self, config) ==
    IF is_some(tls_internal_secret_class(self))
    THEN LET c1 == insert(config, INTER_SSL_KEYSTORE_LOCATION,
                          STACKABLE_TLS_KEYSTORE_INTERNAL_MOUNT_DIR \o "/keystore.p12")
             c2 == insert(c1, INTER_SSL_KEYSTORE_PASSWORD, SSL_STORE_PASSWORD)
             c3 == insert(c2, INTER_SSL_KEYSTORE_TYPE, "PKCS12")
             c4 == insert(c3, INTER_SSL_TRUSTSTORE_LOCATION,
                          STACKABLE_TLS_KEYSTORE_INTERNAL_MOUNT_DIR \o "/truststore.p12")
             c5 == insert(c4, INTER_SSL_TRUSTSTORE_PASSWORD, SSL_STORE_PASSWORD)
             c6 == insert(c5, INTER_SSL_TRUSTSTORE_TYPE, "PKCS12")
         IN  insert(c6, INTER_SSL_CLIENT_AUTH, "required")
    ELSE config

\* the keys of the internal scope
internal_config_settings(self, config) ==
    IF is_some(tls_internal_secret_class(self))
    THEN LET c1 == insert(config, INTER_SSL_KEYSTORE_LOCATION,
                          STACKABLE_TLS_KEYSTORE_INTERNAL_DIR \o "/keystore.p12")
             c2 == insert(c1, INTER_SSL_KEYSTORE_PASSWORD, SSL_STORE_PASSWORD)
             c3 == insert(c2, INTER_SSL_KEYSTORE_TYPE, "PKCS12")
             c4 == insert(c3, INTER_SSL_TRUSTSTORE_LOCATION,
                          STACKABLE_TLS_KEYSTORE_INTERNAL_DIR \o "/truststore.p12")
             c5 == insert(c4, INTER_SSL_TRUSTSTORE_PASSWORD, SSL_STORE_PASSWORD)
             c6 == insert(c5, INTER_SSL_TRUSTSTORE_TYPE, "PKCS12")
         IN  insert(c6, INTER_SSL_CLIENT_AUTH, "required")
    ELSE config

config_settings(self) ==
    insert(internal_config_settings(self, client_config_settings(self, EmptyMap)),
           INTER_BROKER_LISTENER_NAME, KafkaListenerName_Internal)

----------------------------------------------------------------------------
(* The CRD level (lib.rs): GlobalKafkaConfig and compute_files *)

SERVER_PROPERTIES_FILE == "server.properties"
TLS_DEFAULT_SECRET_CLASS == "tls"
SSL_KEYSTORE_LOCATION == "ssl.keystore.location"
SSL_KEYSTORE_PASSWORD == "ssl.keystore.password"
SSL_KEYSTORE_TYPE == "ssl.keystore.type"
SSL_TRUSTSTORE_LOCATION == "ssl.truststore.location"
SSL_TRUSTSTORE_PASSWORD == "ssl.truststore.password"
SSL_TRUSTSTORE_TYPE == "ssl.truststore.type"
SSL_CLIENT_AUTH == "ssl.client.auth"
SSL_ENDPOINT_IDENTIFICATION_ALGORITHM == "ssl.endpoint.identification.algorithm"
INTER_SSL_STORE_PASSWORD == "changeit"
INTER_SSL_ENDPOINT_IDENTIFICATION_ALGORITHM ==
    "listener.name.internal.ssl.endpoint.identification.algorithm"
STACKABLE_TMP_DIR == "/stackable/tmp"
STACKABLE_DATA_DIR == "/stackable/data"
STACKABLE_TLS_CERTS_DIR == "/stackable/certificates"
STACKABLE_TLS_CERTS_INTERNAL_DIR == "/stackable/certificates_internal"

TlsSecretClass(secret_class) == [secret_class |-> secret_class]
ClientAuthenticationClass(authentication_class) ==
    [authentication_class |-> authentication_class]

tls_secret_class_default == Some(TlsSecretClass(TLS_DEFAULT_SECRET_CLASS))

client_tls_secret_class(k) == k.spec.config.tls

client_authentication_class(k) ==
    IF is_some(k.spec.config.client_authentication)
    THEN Some(unwrap(k.spec.config.client_authentication).authentication_class)
    ELSE None

internal_tls_secret_class(k) == k.spec.config.internal_tls

is_client_secure(k) ==
    is_some(client_tls_secret_class(k)) \/ is_some(client_authentication_class(k))

\* opa_files nested under the client TLS branch
opa_files_with_client_tls(resource, config) ==
    IF is_some(resource.spec.opa) /\ is_some(resource.spec.config.tls)
    THEN insert(insert(config, "authorizer.class.name",
                       Some("org.openpolicyagent.kafka.OpaAuthorizer")),
                "opa.authorizer.metrics.enabled", Some("true"))
    ELSE config

\* the OPA keys of compute_files
opa_files(resource, config) ==
    IF is_some(resource.spec.opa)
    THEN insert(insert(config, "authorizer.class.name",
                       Some("org.openpolicyagent.kafka.OpaAuthorizer")),
                "opa.authorizer.metrics.enabled", Some("true"))
    ELSE config

\* the client TLS and authentication keys of compute_files
client_tls_files(resource, config) ==
    IF is_some(client_tls_secret_class(resource))
    THEN LET c1 == insert(config, SSL_KEYSTORE_LOCATION,
                          Some(STACKABLE_TLS_CERTS_DIR \o "/keystore.p12"))
             c2 == insert(c1, SSL_KEYSTORE_PASSWORD, Some(SSL_STORE_PASSWORD))
             c3 == insert(c2, SSL_KEYSTORE_TYPE, Some("PKCS12"))
             c4 == insert(c3, SSL_TRUSTSTORE_LOCATION,
                          Some(STACKABLE_TLS_CERTS_DIR \o "/truststore.p12"))
             c5 == insert(c4, SSL_TRUSTSTORE_PASSWORD, Some(SSL_STORE_PASSWORD))
             c6 == insert(c5, SSL_TRUSTSTORE_TYPE, Some("PKCS12"))
         IN  IF is_some(client_authentication_class(resource))
             THEN insert(insert(c6, SSL_CLIENT_AUTH, Some("required")),
                         SSL_ENDPOINT_IDENTIFICATION_ALGORITHM, Some("HTTPS"))
             ELSE c6
    ELSE config

\* the internal TLS keys of compute_files
internal_tls_files(resource, config) ==
    IF is_some(internal_tls_secret_class(resource))
    THEN LET c1 == insert(config, INTER_SSL_KEYSTORE_LOCATION,
                          Some(STACKABLE_TLS_CERTS_INTERNAL_DIR \o "/keystore.p12"))
             c2 == insert(c1, INTER_SSL_KEYSTORE_PASSWORD, Some(INTER_SSL_STORE_PASSWORD))
             c3 == insert(c2, INTER_SSL_KEYSTORE_TYPE, Some("PKCS12"))
             c4 == insert(c3, INTER_SSL_TRUSTSTORE_LOCATION,
                          Some(STACKABLE_TLS_CERTS_INTERNAL_DIR \o "/truststore.p12"))
             c5 == insert(c4, INTER_SSL_TRUSTSTORE_PASSWORD, Some(INTER_SSL_STORE_PASSWORD))
             c6 == insert(c5, INTER_SSL_TRUSTSTORE_TYPE, Some("PKCS12"))
             c7 == insert(c6, INTER_SSL_CLIENT_AUTH, Some("required"))
         IN  insert(c7, INTER_SSL_ENDPOINT_IDENTIFICATION_ALGORITHM, Some("HTTPS"))
    ELSE config

compute_files(resource, file) ==
    IF file = SERVER_PROPERTIES_FILE
    THEN insert(internal_tls_files(resource,
                    client_tls_files(resource, opa_files(resource, EmptyMap))),
                INTER_BROKER_LISTENER_NAME, Some("internal"))
    ELSE EmptyMap

----------------------------------------------------------------------------
(* The CRD level (lib.rs): resources of a rolegroup.  A Resources value is *)
(* a fragment: each of its fields is an Option.                            *)

LOG_DIRS_VOLUME_NAME == "log-dirs"

\* the role of the brokers, KafkaRole::Broker.to_string()
KafkaRole_Broker == "broker"

\* Resources<Storage, NoRuntimeLimits>
Resources(cpu_min, cpu_max, memory_limit, capacity, storage_class, selectors) ==
    [cpu |-> [min |-> cpu_min, max |-> cpu_max],
     memory |-> [limit |-> memory_limit],
     storage |-> [log_dirs |-> [capacity |-> capacity,
                                 storage_class |-> storage_class,
                                 selectors |-> selectors]]]

\* Resources::default(): nothing is set
NoResources == Resources(None, None, None, None, None, None)

\* Merge for an atomic Option: the value of self if it is set, else the default
merge_option(self, defaults) == IF self = None THEN defaults ELSE self

\* Merge::merge of Resources, field by field; self has the higher precedence
merge(self, defaults) ==
    Resources(merge_option(self.cpu.min, defaults.cpu.min),
              merge_option(self.cpu.max, defaults.cpu.max),
              merge_option(self.memory.limit, defaults.memory.limit),
              merge_option(self.storage.log_dirs.capacity,
                           defaults.storage.log_dirs.capacity),
              merge_option(self.storage.log_dirs.storage_class,
                           defaults.storage.log_dirs.storage_class),
              merge_option(self.storage.log_dirs.selectors,
                           defaults.storage.log_dirs.selectors))

default_resources == Resources(None, None, None, Some("1Gi"), None, None)

\* KafkaCluster::broker_rolegroup_ref
broker_rolegroup_ref(k, group_name) ==
    [cluster |-> k.metadata.name, role |-> KafkaRole_Broker, role_group |-> group_name]

\* RoleGroupRef::object_name
object_name(rolegroup_ref) ==
    rolegroup_ref.cluster \o "-" \o rolegroup_ref.role \o "-" \o rolegroup_ref.role_group

rolegroup_resources(k, rolegroup_ref) ==
    IF is_some(k.spec.brokers)
          /\ rolegroup_ref.role_group \in DOMAIN unwrap(k.spec.brokers).role_groups
    THEN unwrap(k.spec.brokers).role_groups[rolegroup_ref.role_group].config.resources
    ELSE NoResources

role_resources(k) ==
    IF is_some(k.spec.brokers)
    THEN unwrap(k.spec.brokers).config.resources
    ELSE NoResources

\* PvcConfig::build_pvc
build_pvc(pvc_config, name, access_modes) ==
    [name |-> name,
     access_modes |-> access_modes,
     selector |-> pvc_config.selectors,
     storage_class_name |-> pvc_config.storage_class,
     requests |-> IF is_some(pvc_config.capacity)
                  THEN insert(EmptyMap, "storage", unwrap(pvc_config.capacity))
                  ELSE EmptyMap]

\* Into<ResourceRequirements> for Resources
into_resource_requirements(res) ==
    LET l1 == IF is_some(res.memory.limit)
              THEN insert(EmptyMap, "memory", unwrap(res.memory.limit)) ELSE EmptyMap
        r1 == l1
        l2 == IF is_some(res.cpu.max) THEN insert(l1, "cpu", unwrap(res.cpu.max)) ELSE l1
        r2 == IF is_some(res.cpu.min) THEN insert(r1, "cpu", unwrap(res.cpu.min)) ELSE r1
    IN  [limits |-> l2, requests |-> r2]

\* merged_resources with the role above the rolegroup
merged_resources_role_first(k, rolegroup_ref) ==
    LET role == merge(role_resources(k), default_resources)
    IN  merge(role, rolegroup_resources(k, rolegroup_ref))

\* merged_resources without the merge of the defaults
merged_resources_no_default(k, rolegroup_ref) ==
    merge(rolegroup_resources(k, rolegroup_ref), role_resources(k))

\* merged_resources merging the defaults into the rolegroup before the role
merged_resources_default_before_role(k, rolegroup_ref) ==
    merge(merge(rolegroup_resources(k, rolegroup_ref), default_resources),
          role_resources(k))

\* the merged fragment of KafkaCluster::resources
merged_resources(k, rolegroup_ref) ==
    LET role == merge(role_resources(k), default_resources)
    IN  merge(rolegroup_resources(k, rolegroup_ref), role)

\* KafkaCluster::resources: the claims of the data volume and the
\* requirements of the pod
resources(k, rolegroup_ref) ==
    LET res == merged_resources(k, rolegroup_ref) IN
    [pvcs |-> << build_pvc(res.storage.log_dirs, LOG_DIRS_VOLUME_NAME,
                           Some(<<"ReadWriteOnce">>)) >>,
     pod_resources |-> into_resource_requirements(res)]

----------------------------------------------------------------------------
(* The pods of the cluster (lib.rs) *)

\* the names a rolegroup may have, listed in the order of Ord for String
RolegroupNames == <<"a", "ab", "b">>

\* Ord for String on the names of the rolegroups
str_lt(x, y) ==
    \E i, j \in 1..Len(RolegroupNames) :
        /\ RolegroupNames[i] = x
        /\ RolegroupNames[j] = y
        /\ i < j

\* BTreeMap::insert on the keys of the map, kept in ascending order
btree_insert(keys, key) ==
    SelectSeq(keys, LAMBDA x : str_lt(x, key))
        \o <<key>>
        \o SelectSeq(keys, LAMBDA x : str_lt(key, x))

\* collect::<BTreeMap> that keeps the order in which the entries arrive
RECURSIVE collect_arrival_order(_)
collect_arrival_order(entries) ==
    IF entries = <<>> THEN <<>>
    ELSE Append(collect_arrival_order(SubSeq(entries, 1, Len(entries) - 1)),
                entries[Len(entries)])

\* collect::<BTreeMap>: the keys of the entries, in the order into_iter
\* yields them
RECURSIVE collect_btree(_)
collect_btree(entries) ==
    IF entries = <<>> THEN <<>>
    ELSE btree_insert(collect_btree(SubSeq(entries, 1, Len(entries) - 1)),
                      entries[Len(entries)])

KafkaPodRef(namespace, role_group_service_name, pod_name) ==
    [namespace |-> namespace,
     role_group_service_name |-> role_group_service_name,
     pod_name |-> pod_name]

\* rolegroup_pods numbering the pods from one
rolegroup_pods_from_one(k, ns, rolegroup_name) ==
    LET rolegroup == unwrap(k.spec.brokers).role_groups[rolegroup_name]
        rolegroup_ref == broker_rolegroup_ref(k, rolegroup_name)
        replicas == IF is_some(rolegroup.replicas) THEN unwrap(rolegroup.replicas) ELSE 0
    IN  [n \in 1..replicas |->
            KafkaPodRef(ns, object_name(rolegroup_ref),
                        object_name(rolegroup_ref) \o "-" \o ToString(n))]

\* the pods of one rolegroup: (0..replicas.unwrap_or(0)).map(...)
rolegroup_pods(k, ns, rolegroup_name) ==
    LET rolegroup == unwrap(k.spec.brokers).role_groups[rolegroup_name]
        rolegroup_ref == broker_rolegroup_ref(k, rolegroup_name)
        replicas == IF is_some(rolegroup.replicas) THEN unwrap(rolegroup.replicas) ELSE 0
    IN  [n \in 1..replicas |->
            KafkaPodRef(ns, object_name(rolegroup_ref),
                        object_name(rolegroup_ref) \o "-" \o ToString(n - 1))]

\* flat_map over the rolegroups in the order given
RECURSIVE flat_map_pods(_, _, _)
flat_map_pods(k, ns, rolegroup_names) ==
    IF rolegroup_names = <<>> THEN <<>>
    ELSE rolegroup_pods(k, ns, Head(rolegroup_names))
            \o flat_map_pods(k, ns, Tail(rolegroup_names))

\* pods that looks at the brokers role before the namespace
pods_brokers_first(k, iteration_order) ==
    IF k.spec.brokers = None THEN Ok(<<>>)
    ELSE IF k.metadata.namespace = None THEN Err("NoNamespace")
    ELSE Ok(flat_map_pods(k, unwrap(k.metadata.namespace),
                          collect_btree(iteration_order)))

\* KafkaCluster::pods; iteration_order is the order in which the HashMap of
\* the rolegroups hands out its entries (empty without a brokers role)
pods(k, iteration_order) ==
    IF k.metadata.namespace = None THEN Err("NoNamespace")
    ELSE Ok(flat_map_pods(k, unwrap(k.metadata.namespace),
                          collect_btree(iteration_order)))

----------------------------------------------------------------------------
(* The container commands of command.rs *)

create_key_and_trust_store(directory, alias_name) ==
    << "echo [" \o directory \o "] Creating truststore",
       "keytool -importcert -file " \o directory \o "/ca.crt -keystore " \o directory
           \o "/truststore.p12 -storetype pkcs12 -noprompt -alias " \o alias_name
           \o " -storepass " \o SSL_STORE_PASSWORD,
       "echo [" \o directory \o "] Creating certificate chain",
       "cat " \o directory \o "/ca.crt " \o directory \o "/tls.crt > " \o directory
           \o "/chain.crt",
       "echo [" \o directory \o "] Creating keystore",
       "openssl pkcs12 -export -in " \o directory \o "/chain.crt -inkey " \o directory
           \o "/tls.key -out " \o directory \o "/keystore.p12 --passout pass:"
           \o SSL_STORE_PASSWORD >>

chown_and_chmod(directory) ==
    << "echo chown and chmod " \o directory,
       "chown -R stackable:stackable " \o directory,
       "chmod -R a=,u=rwX " \o directory >>

\* the commands of prepare_container_cmd_args before they are joined
prepare_container_cmd_list(k) ==
    << "keytool -importkeystore -srckeystore " \o SYSTEM_TRUST_STORE_DIR
           \o " -srcstoretype jks -srcstorepass " \o SSL_STORE_PASSWORD
           \o " -destkeystore " \o STACKABLE_TLS_CERTS_DIR
           \o "/truststore.p12 -deststoretype pkcs12 -deststorepass "
           \o SSL_STORE_PASSWORD \o " -noprompt" >>
    \o (IF is_some(client_tls_secret_class(k))
        THEN create_key_and_trust_store(STACKABLE_TLS_CERTS_DIR, "stackable-ca-cert")
             \o chown_and_chmod(STACKABLE_TLS_CERTS_DIR)
        ELSE <<>>)
    \o chown_and_chmod(STACKABLE_DATA_DIR)
    \o chown_and_chmod(STACKABLE_TMP_DIR)

RECURSIVE join(_, _)
\* [String]::join
join(strs, sep) ==
    IF strs = <<>> THEN ""
    ELSE IF Len(strs) = 1 THEN strs[1]
    ELSE strs[1] \o sep \o join(Tail(strs), sep)

prepare_container_cmd_args(k) == join(prepare_container_cmd_list(k), " && ")

\* command::kcat_container_cmd_args
kcat_container_cmd_args(k) ==
    <<"kcat">>
    \o (IF is_some(client_tls_secret_class(k))
        THEN << "-b", "localhost:" \o ToString(SECURE_CLIENT_PORT),
                "-X", "security.protocol=SSL",
                "-X", SSL_KEYSTORE_LOCATION \o "=" \o STACKABLE_TLS_CERTS_DIR \o "/keystore.p12",
                "-X", SSL_KEYSTORE_PASSWORD \o "=" \o SSL_STORE_PASSWORD,
                "-X", SSL_TRUSTSTORE_LOCATION \o "=" \o STACKABLE_TLS_CERTS_DIR
                          \o "/truststore.p12",
                "-X", SSL_TRUSTSTORE_PASSWORD \o "=" \o SSL_STORE_PASSWORD >>
        ELSE << "-b", "localhost:" \o ToString(CLIENT_PORT) >>)
    \o <<"-L">>

----------------------------------------------------------------------------
(* The cluster objects of a reconciliation pass *)

RECURSIVE SeqsUpTo(_, _)
\* the sequences over S of length at most n
SeqsUpTo(S, n) ==
    IF n = 0 THEN {<<>>}
    ELSE LET shorter == SeqsUpTo(S, n - 1) IN
         shorter \cup {Append(q, x) : q \in shorter, x \in S}

\* spec.clusterConfig.tls: absent, or both secret classes
TlsConfigs ==
    {None} \cup {Some([internal_secret_class |-> i, server_secret_class |-> s]) :
                    i \in InternalSecretClasses, s \in ServerSecretClasses}

\* spec.clusterConfig
ClusterConfigs ==
    [authentication : SeqsUpTo(AuthClassNames, MaxAuthRefs), tls : TlsConfigs]

\* spec.config
GlobalKafkaConfigs ==
    [tls : {None, tls_secret_class_default},
     client_authentication : {None, Some(ClientAuthenticationClass("kafka-client-tls"))},
     internal_tls : {None, Some(TlsSecretClass("simple-kafka-internal-tls"))}]

\* metadata of a cluster object that was read from the cluster
Metadata(namespace) == [name |-> "simple-kafka", namespace |-> namespace]

\* the cluster objects of the security resolution: no brokers role
KafkaClusters ==
    {[metadata |-> Metadata(Some("default")),
      spec |-> [cluster_config |-> cc, config |-> gc, opa |-> o, brokers |-> None]] :
        cc \in ClusterConfigs, gc \in GlobalKafkaConfigs, o \in {None, Some("opa")}}

\* the files compute_files is asked for
Files == {SERVER_PROPERTIES_FILE, "log4j.properties"}

NoOutput == [op |-> "none", arg |-> "", value |-> <<>>]

\* the prepare container before it is started
NoInitPhase == [command |-> "", steps |-> <<>>, exits |-> <<>>, status |-> "none"]

----------------------------------------------------------------------------
(* The reconciliation pass *)

Init ==
    /\ kafka \in KafkaClusters
    /\ pc = "parsed"
    /\ security = None
    /\ error = None
    /\ out = NoOutput
    /\ init_phase = NoInitPhase

\* security_of with the default secret class for the server as well
security_of_server_default(k, resolved) ==
    new(resolved,
        IF is_some(k.spec.cluster_config.tls)
        THEN unwrap(k.spec.cluster_config.tls).internal_secret_class
        ELSE internal_tls_default,
        IF is_some(k.spec.cluster_config.tls)
        THEN unwrap(k.spec.cluster_config.tls).server_secret_class
        ELSE Some(internal_tls_default))

\* the KafkaTlsSecurity of a cluster object for resolved classes
security_of(k, resolved) ==
    new(resolved,
        IF is_some(k.spec.cluster_config.tls)
        THEN unwrap(k.spec.cluster_config.tls).internal_secret_class
        ELSE internal_tls_default,
        IF is_some(k.spec.cluster_config.tls)
        THEN unwrap(k.spec.cluster_config.tls).server_secret_class
        ELSE None)

\* new_from_kafka_cluster that goes on without classes when the resolution
\* fails
new_from_kafka_cluster_lenient(k) ==
    {IF r.ok THEN Ok(security_of(k, r.value)) ELSE Ok(security_of(k, <<>>)) :
        r \in from_references(k.spec.cluster_config.authentication)}

RECURSIVE resolved_prefix(_)
\* the classes of the references before the first that does not resolve
resolved_prefix(refs) ==
    IF refs = <<>> THEN <<>>
    ELSE LET first == lookup_authentication_class(Head(refs)) IN
         IF ~first.ok \/ first.value.provider # "Tls" THEN <<>>
         ELSE <<first.value>> \o resolved_prefix(Tail(refs))

\* new_from_kafka_cluster that goes on with the classes resolved before the
\* failure
new_from_kafka_cluster_partial(k) ==
    {IF r.ok THEN Ok(security_of(k, r.value))
     ELSE Ok(security_of(k, resolved_prefix(k.spec.cluster_config.authentication))) :
        r \in from_references(k.spec.cluster_config.authentication)}

\* KafkaTlsSecurity::new_from_kafka_cluster: the possible results
new_from_kafka_cluster(k) ==
    {IF r.ok THEN Ok(security_of(k, r.value))
     ELSE Err([variant |-> "InvalidAuthenticationClassConfiguration",
               source |-> r.err]) :
        r \in from_references(k.spec.cluster_config.authentication)}

\* KafkaTlsSecurity::new_from_kafka_cluster, the authentication classes resolve
NewFromKafkaClusterOk ==
    /\ pc = "parsed"
    /\ \E r \in new_from_kafka_cluster(kafka) :
        /\ r.ok
        /\ security' = Some(r.value)
    /\ pc' = "resolved"
    /\ UNCHANGED <<kafka, error, out, init_phase>>

\* KafkaTlsSecurity::new_from_kafka_cluster, the resolution fails
NewFromKafkaClusterErr ==
    /\ pc = "parsed"
    /\ \E r \in new_from_kafka_cluster(kafka) :
        /\ ~r.ok
        /\ error' = Some(r.err)
    /\ pc' = "failed"
    /\ UNCHANGED <<kafka, security, out, init_phase>>

\* tls_enabled, client_port, client_port_name and internal_port
ListenerPortFacts ==
    /\ is_some(security)
    /\ out' = [op |-> "port_facts", arg |-> "",
               value |-> [tls_enabled |-> tls_enabled(unwrap(security)),
                          client_port |-> client_port(unwrap(security)),
                          client_port_name |-> client_port_name(unwrap(security)),
                          internal_port |-> internal_port(unwrap(security))]]
    /\ UNCHANGED <<kafka, pc, security, error, init_phase>>

PrepareContainerCommandArgs ==
    /\ is_some(security)
    /\ out' = [op |-> "prepare_container_command_args", arg |-> "",
               value |-> prepare_container_command_args(unwrap(security))]
    /\ UNCHANGED <<kafka, pc, security, error, init_phase>>

AddVolumeAndVolumeMounts ==
    /\ is_some(security)
    /\ out' = [op |-> "add_volume_and_volume_mounts", arg |-> "",
               value |-> add_volume_and_volume_mounts(unwrap(security), NewBuilders)]
    /\ UNCHANGED <<kafka, pc, security, error, init_phase>>

ConfigSettings ==
    /\ is_some(security)
    /\ out' = [op |-> "config_settings", arg |-> "",
               value |-> config_settings(unwrap(security))]
    /\ UNCHANGED <<kafka, pc, security, error, init_phase>>

\* KafkaConfig::compute_files of the CRD
ComputeFiles ==
    /\ \E file \in Files :
        out' = [op |-> "compute_files", arg |-> file,
                value |-> compute_files(kafka, file)]
    /\ UNCHANGED <<kafka, pc, security, error, init_phase>>

\* command::prepare_container_cmd_args
PrepareContainerCmdArgs ==
    /\ out' = [op |-> "prepare_container_cmd_args", arg |-> "",
               value |-> prepare_container_cmd_args(kafka)]
    /\ UNCHANGED <<kafka, pc, security, error, init_phase>>

\* KafkaCluster::is_client_secure
IsClientSecure ==
    /\ out' = [op |-> "is_client_secure", arg |-> "", value |-> is_client_secure(kafka)]
    /\ UNCHANGED <<kafka, pc, security, error, init_phase>>

\* command::kcat_container_cmd_args
KcatContainerCmdArgs ==
    /\ out' = [op |-> "kcat_container_cmd_args", arg |-> "",
               value |-> kcat_container_cmd_args(kafka)]
    /\ UNCHANGED <<kafka, pc, security, error, init_phase>>

Next ==
    \/ NewFromKafkaClusterOk
    \/ NewFromKafkaClusterErr
    \/ ListenerPortFacts
    \/ PrepareContainerCommandArgs
    \/ AddVolumeAndVolumeMounts
    \/ ConfigSettings
    \/ ComputeFiles
    \/ PrepareContainerCmdArgs
    \/ IsClientSecure
    \/ KcatContainerCmdArgs

Spec == Init /\ [][Next]_vars

----------------------------------------------------------------------------
(* The custom resource as it is read from YAML (lib.rs) *)

\* a field of a YAML mapping: left out, null, or given with a value
Omitted == [kind |-> "omitted", value |-> ""]
Null == [kind |-> "null", value |-> ""]
Given(v) == [kind |-> "value", value |-> v]
YamlFields(values) == {Omitted, Null} \cup {Given(v) : v \in values}

\* spec.config of the YAML document: left out, or a mapping of the fields
ConfigOmitted ==
    [present |-> FALSE, tls |-> Omitted, clientAuthentication |-> Omitted,
     internalTls |-> Omitted]
YamlConfigs ==
    {ConfigOmitted}
    \cup [present : {TRUE},
          tls : YamlFields({"simple-kafka-client-tls", "tls"}),
          clientAuthentication : YamlFields({"kafka-client-tls"}),
          internalTls : YamlFields({"simple-kafka-internal-tls"})]

\* Default for GlobalKafkaConfig
GlobalKafkaConfig_default ==
    [tls |-> tls_secret_class_default, client_authentication |-> None, internal_tls |-> None]

\* Deserialize for Option<TlsSecretClass> of a field that is there
deserialize_tls_secret_class(field) ==
    IF field.kind = "value" THEN Some(TlsSecretClass(field.value)) ELSE None

\* Deserialize for Option<ClientAuthenticationClass> of a field that is there
deserialize_client_authentication_class(field) ==
    IF field.kind = "value" THEN Some(ClientAuthenticationClass(field.value)) ELSE None

\* deserialize_global_kafka_config that reads a null tls as a field left out
deserialize_global_kafka_config_null_as_default(config) ==
    IF ~config.present THEN GlobalKafkaConfig_default
    ELSE [tls |-> IF config.tls.kind \in {"omitted", "null"} THEN tls_secret_class_default
                  ELSE deserialize_tls_secret_class(config.tls),
          client_authentication |->
              IF config.clientAuthentication.kind = "omitted" THEN None
              ELSE deserialize_client_authentication_class(config.clientAuthentication),
          internal_tls |-> IF config.internalTls.kind = "omitted" THEN None
                           ELSE deserialize_tls_secret_class(config.internalTls)]

\* Deserialize for GlobalKafkaConfig as spec.config: the default of the
\* struct when config is left out, the default of tls when tls is left out
deserialize_global_kafka_config(config) ==
    IF ~config.present THEN GlobalKafkaConfig_default
    ELSE [tls |-> IF config.tls.kind = "omitted" THEN tls_secret_class_default
                  ELSE deserialize_tls_secret_class(config.tls),
          client_authentication |->
              IF config.clientAuthentication.kind = "omitted" THEN None
              ELSE deserialize_client_authentication_class(config.clientAuthentication),
          internal_tls |-> IF config.internalTls.kind = "omitted" THEN None
                           ELSE deserialize_tls_secret_class(config.internalTls)]

\* serde_yaml::from_str::<KafkaCluster> of a document with the given config
from_str(config) ==
    [metadata |-> Metadata(None),
     spec |-> [cluster_config |-> [authentication |-> <<>>, tls |-> None],
               config |-> deserialize_global_kafka_config(config),
               opa |-> None,
               brokers |-> None]]

InitCrd ==
    /\ \E config \in YamlConfigs :
        /\ kafka = from_str(config)
        /\ out = [op |-> "from_str", arg |-> config, value |-> <<>>]
    /\ pc = "parsed"
    /\ security = None
    /\ error = None
    /\ init_phase = NoInitPhase

\* KafkaCluster::client_tls_secret_class
ClientTlsSecretClass ==
    /\ out' = [op |-> "client_tls_secret_class", arg |-> out.arg,
               value |-> client_tls_secret_class(kafka)]
    /\ UNCHANGED <<kafka, pc, security, error, init_phase>>

\* KafkaCluster::internal_tls_secret_class
InternalTlsSecretClass ==
    /\ out' = [op |-> "internal_tls_secret_class", arg |-> out.arg,
               value |-> internal_tls_secret_class(kafka)]
    /\ UNCHANGED <<kafka, pc, security, error, init_phase>>

\* KafkaCluster::client_authentication_class
ClientAuthenticationClassOfCluster ==
    /\ out' = [op |-> "client_authentication_class", arg |-> out.arg,
               value |-> client_authentication_class(kafka)]
    /\ UNCHANGED <<kafka, pc, security, error, init_phase>>

NextCrd ==
    \/ ClientTlsSecretClass
    \/ InternalTlsSecretClass
    \/ ClientAuthenticationClassOfCluster

SpecCrd == InitCrd /\ [][NextCrd]_vars

----------------------------------------------------------------------------
(* The init phase: the prepare container runs the joined commands *)

\* the exit codes of a step
ExitCodes == {0, 1}

\* the status of a list of steps that runs each step whatever the one
\* before it returned (joined with ";")
sequence_list_status(steps, exits) ==
    IF Len(exits) < Len(steps) THEN "running"
    ELSE IF exits # <<>> /\ exits[Len(exits)] # 0 THEN "failed"
    ELSE "succeeded"

\* the status of the steps joined with " && " after the given exit codes:
\* the list ends with the first step that fails
and_list_status(steps, exits) ==
    IF exits # <<>> /\ exits[Len(exits)] # 0 THEN "failed"
    ELSE IF Len(exits) = Len(steps) THEN "succeeded"
    ELSE "running"

\* the cluster objects whose prepare container is run
InitPhaseClusters ==
    {k \in KafkaClusters :
        /\ k.spec.opa = None
        /\ k.spec.config.client_authentication = None
        /\ k.spec.config.internal_tls = None}

InitInitPhase ==
    /\ kafka \in InitPhaseClusters
    /\ pc = "parsed"
    /\ security = None
    /\ error = None
    /\ out = NoOutput
    /\ init_phase = NoInitPhase

\* the prepare container is started with command::prepare_container_cmd_args
StartPrepareContainerCmdArgs ==
    /\ init_phase.status = "none"
    /\ init_phase' = [command |-> prepare_container_cmd_args(kafka),
                      steps |-> prepare_container_cmd_list(kafka),
                      exits |-> <<>>,
                      status |-> and_list_status(prepare_container_cmd_list(kafka), <<>>)]
    /\ UNCHANGED <<kafka, pc, security, error, out>>

\* the prepare container is started with the joined commands of
\* KafkaTlsSecurity::prepare_container_command_args
StartPrepareContainerCommandArgs ==
    /\ is_some(security)
    /\ init_phase.status = "none"
    /\ LET steps == prepare_container_command_args(unwrap(security)) IN
       init_phase' = [command |-> join(steps, " && "),
                      steps |-> steps,
                      exits |-> <<>>,
                      status |-> and_list_status(steps, <<>>)]
    /\ UNCHANGED <<kafka, pc, security, error, out>>

\* the shell runs the next step of the list
RunStep ==
    /\ init_phase.status = "running"
    /\ \E exit \in ExitCodes :
        LET exits == Append(init_phase.exits, exit) IN
        init_phase' = [init_phase EXCEPT
                          !.exits = exits,
                          !.status = and_list_status(init_phase.steps, exits)]
    /\ UNCHANGED <<kafka, pc, security, error, out>>

NextInitPhase ==
    \/ NewFromKafkaClusterOk
    \/ NewFromKafkaClusterErr
    \/ StartPrepareContainerCmdArgs
    \/ StartPrepareContainerCommandArgs
    \/ RunStep

SpecInitPhase == InitInitPhase /\ [][NextInitPhase]_vars

----------------------------------------------------------------------------
(* The resources of the rolegroups: cluster objects whose brokers role and *)
(* rolegroup set any subset of the fields of their resources               *)

\* the fragments that set some of their fields, all to the value v
ResourceFragments(v) ==
    {Resources(a, b, c, d, e, f) :
        a \in {None, Some(v)}, b \in {None, Some(v)}, c \in {None, Some(v)},
        d \in {None, Some(v)}, e \in {None, Some(v)}, f \in {None, Some(v)}}

\* Role<KafkaConfig> and RoleGroup<KafkaConfig>
BrokerRole(res, role_groups) == [config |-> [resources |-> res], role_groups |-> role_groups]
RoleGroup(replicas, res) == [replicas |-> replicas, config |-> [resources |-> res]]

\* a cluster object with the given namespace and brokers role
BrokerCluster(namespace, brokers) ==
    [metadata |-> Metadata(namespace),
     spec |-> [cluster_config |-> [authentication |-> <<>>, tls |-> None],
               config |-> [tls |-> tls_secret_class_default,
                           client_authentication |-> None,
                           internal_tls |-> None],
               opa |-> None,
               brokers |-> brokers]]

ResourceClusters ==
    {BrokerCluster(Some("default"), None)}
    \cup {BrokerCluster(Some("default"), Some(BrokerRole(r, g))) :
            r \in ResourceFragments("role"),
            g \in {EmptyMap}
                  \cup {[n \in {"default"} |-> RoleGroup(Some(1), f)] :
                            f \in ResourceFragments("rolegroup")}}

\* the rolegroups resources() is asked for: one of the cluster, one unknown
RolegroupRefs == {"default", "unknown"}

InitResources ==
    /\ kafka \in ResourceClusters
    /\ pc = "parsed"
    /\ security = None
    /\ error = None
    /\ out = NoOutput
    /\ init_phase = NoInitPhase

\* KafkaCluster::resources
ResourcesOfRolegroup ==
    /\ \E group_name \in RolegroupRefs :
        out' = [op |-> "resources", arg |-> group_name,
                value |-> resources(kafka, broker_rolegroup_ref(kafka, group_name))]
    /\ UNCHANGED <<kafka, pc, security, error, init_phase>>

NextResources == ResourcesOfRolegroup

SpecResources == InitResources /\ [][NextResources]_vars

----------------------------------------------------------------------------
(* The pods of the cluster: cluster objects with and without a namespace,  *)
(* with any set of rolegroups and any number of replicas                   *)

MaxReplicas == 2

ReplicaCounts == {None} \cup {Some(n) : n \in 0..MaxReplicas}

\* the HashMaps of rolegroups
RoleGroupMaps ==
    UNION {[names -> {RoleGroup(n, NoResources) : n \in ReplicaCounts}] :
              names \in SUBSET {RolegroupNames[i] : i \in 1..Len(RolegroupNames)}}

PodClusters ==
    {BrokerCluster(ns, b) :
        ns \in {None, Some("default")},
        b \in {None} \cup {Some(BrokerRole(NoResources, g)) : g \in RoleGroupMaps}}

\* the orders in which a HashMap with the given keys may hand them out
IterationOrders(keys) ==
    {order \in [1..Cardinality(keys) -> keys] :
        \A i, j \in 1..Cardinality(keys) : order[i] = order[j] => i = j}

InitPods ==
    /\ kafka \in PodClusters
    /\ pc = "parsed"
    /\ security = None
    /\ error = None
    /\ out = NoOutput
    /\ init_phase = NoInitPhase

\* KafkaCluster::pods
Pods ==
    /\ \E order \in IterationOrders(IF kafka.spec.brokers = None THEN {}
                                    ELSE DOMAIN unwrap(kafka.spec.brokers).role_groups) :
        out' = [op |-> "pods", arg |-> order, value |-> pods(kafka, order)]
    /\ UNCHANGED <<kafka, pc, security, error, init_phase>>

NextPods == Pods

SpecPods == InitPods /\ [][NextPods]_vars

----------------------------------------------------------------------------
(* Vocabulary of the properties: the inputs of the KafkaTlsSecurity value  *)
(* and the parts of its outputs                                            *)

\* the KafkaTlsSecurity value of the pass
sec == unwrap(security)

\* the resolved authentication classes
ResolvedClassesOf(s) ==
    {s.resolved_authentication_classes[i] : i \in DOMAIN s.resolved_authentication_classes}

AuthResolved(s) == \E c \in ResolvedClassesOf(s) : c.provider = "Tls"
AuthOverride(s) ==
    \E c \in ResolvedClassesOf(s) : c.provider = "Tls" /\ c.client_cert_secret_class # None
ServerTls(s) == s.server_secret_class # None
InternalTls(s) == s.internal_secret_class # ""

ClientKeys ==
    {CLIENT_SSL_KEYSTORE_LOCATION, CLIENT_SSL_KEYSTORE_PASSWORD, CLIENT_SSL_KEYSTORE_TYPE,
     CLIENT_SSL_TRUSTSTORE_LOCATION, CLIENT_SSL_TRUSTSTORE_PASSWORD,
     CLIENT_SSL_TRUSTSTORE_TYPE}
ClientAuthStoreKeys ==
    {CLIENT_AUTH_SSL_KEYSTORE_LOCATION, CLIENT_AUTH_SSL_KEYSTORE_PASSWORD,
     CLIENT_AUTH_SSL_KEYSTORE_TYPE, CLIENT_AUTH_SSL_TRUSTSTORE_LOCATION,
     CLIENT_AUTH_SSL_TRUSTSTORE_PASSWORD, CLIENT_AUTH_SSL_TRUSTSTORE_TYPE}
ClientAuthKeys == ClientAuthStoreKeys \cup {CLIENT_AUTH_SSL_CLIENT_AUTH}
InternalStoreKeys ==
    {INTER_SSL_KEYSTORE_LOCATION, INTER_SSL_KEYSTORE_PASSWORD, INTER_SSL_KEYSTORE_TYPE,
     INTER_SSL_TRUSTSTORE_LOCATION, INTER_SSL_TRUSTSTORE_PASSWORD,
     INTER_SSL_TRUSTSTORE_TYPE}
InternalKeys == InternalStoreKeys \cup {INTER_SSL_CLIENT_AUTH}

\* the volumes of a pod builder with the given name
VolumesNamed(b, name) ==
    {b.pod_builder[i] : i \in {j \in DOMAIN b.pod_builder : b.pod_builder[j].name = name}}

\* the names of the volumes and of the volume mounts of the builders
VolumeNames(b) == {b.pod_builder[i].name : i \in DOMAIN b.pod_builder}
MountsOf(container) == {container[i] : i \in DOMAIN container}

ExternalVolumeNames ==
    {STACKABLE_TLS_CERT_SERVER_MOUNT_DIR_NAME, STACKABLE_TLS_KEYSTORE_SERVER_MOUNT_DIR_NAME,
     STACKABLE_TLS_KEYSTORE_SERVER_DIR_NAME}
InternalVolumeNames ==
    {STACKABLE_TLS_KEYSTORE_INTERNAL_MOUNT_DIR_NAME, STACKABLE_TLS_KEYSTORE_INTERNAL_DIR_NAME}

\* the positions of a command in a list of commands
Positions(args, command) == {i \in DOMAIN args : args[i] = command}

----------------------------------------------------------------------------
(* Properties *)

\* C1: tls_enabled() is true exactly when an authentication class of the TLS
\* provider is resolved or server_secret_class is Some, and its value is the
\* same for every internal_secret_class.
C1_TlsEnabledIffAuthOrServer ==
    out.op = "port_facts" =>
        /\ out.value.tls_enabled <=> (AuthResolved(sec) \/ ServerTls(sec))
        /\ \A i \in InternalSecretClasses :
               tls_enabled([sec EXCEPT !.internal_secret_class = i])
                   = out.value.tls_enabled

\* TLS is enabled by an authentication class alone, internal TLS switched off
C1_Witness ==
    /\ out.op = "port_facts"
    /\ out.value.tls_enabled
    /\ AuthResolved(sec) /\ ~ServerTls(sec) /\ ~InternalTls(sec)

\* the secret class the claim C2 expects for the external client scope
ExpectedClientSecretClass(s) ==
    IF AuthOverride(s)
    THEN (CHOOSE c \in ResolvedClassesOf(s) :
              c.provider = "Tls" /\ c.client_cert_secret_class # None).client_cert_secret_class
    ELSE IF ServerTls(s) THEN s.server_secret_class
    ELSE None

\* C2: the secret class of the external client scope is the client
\* certificate secret class of the resolved TLS authentication class if it has
\* one, else server_secret_class if present, else none: the external volumes
\* exist exactly when there is such a class and are backed by it.
C2_ClientSecretClassPrecedence ==
    out.op = "add_volume_and_volume_mounts" =>
        LET expected == ExpectedClientSecretClass(sec)
            secret_volumes ==
                VolumesNamed(out.value, STACKABLE_TLS_CERT_SERVER_MOUNT_DIR_NAME)
                \cup VolumesNamed(out.value, STACKABLE_TLS_KEYSTORE_SERVER_MOUNT_DIR_NAME)
        IN  IF expected = None
            THEN VolumeNames(out.value) \cap ExternalVolumeNames = {}
            ELSE /\ ExternalVolumeNames \subseteq VolumeNames(out.value)
                 /\ \A v \in secret_volumes :
                        v.kind = "ephemeral-secret" /\ v.secret_class = unwrap(expected)

\* an authentication class without override falls back to the server class
C2_Witness ==
    /\ out.op = "add_volume_and_volume_mounts"
    /\ AuthResolved(sec) /\ ~AuthOverride(sec) /\ sec.server_secret_class = Some("s")
    /\ \E v \in VolumesNamed(out.value, STACKABLE_TLS_KEYSTORE_SERVER_MOUNT_DIR_NAME) :
           v.secret_class = "s"

\* C3: with a resolved TLS authentication class whose client certificate
\* secret class is "o", the keystore source volume of the external scope is
\* backed by "o" for every server_secret_class and never by the server class,
\* it is the volume the prepare container mounts at the directory the import
\* reads from, and config_settings() has client.auth = required.
C3_OverrideBacksExternalKeystore ==
    (out.op \in {"add_volume_and_volume_mounts", "config_settings"} /\ AuthOverride(sec)) =>
        /\ out.op = "add_volume_and_volume_mounts" =>
            /\ VolumesNamed(out.value, STACKABLE_TLS_KEYSTORE_SERVER_MOUNT_DIR_NAME) # {}
            /\ \A v \in VolumesNamed(out.value, STACKABLE_TLS_KEYSTORE_SERVER_MOUNT_DIR_NAME) :
                   /\ v.kind = "ephemeral-secret"
                   /\ v.secret_class = "o"
                   /\ sec.server_secret_class = Some("s") => v.secret_class # "s"
            /\ VolumeMount(STACKABLE_TLS_KEYSTORE_SERVER_MOUNT_DIR_NAME,
                           STACKABLE_TLS_KEYSTORE_SERVER_MOUNT_DIR)
                   \in MountsOf(out.value.cb_prepare)
        /\ out.op = "config_settings" =>
            /\ CLIENT_AUTH_SSL_CLIENT_AUTH \in DOMAIN out.value
            /\ out.value[CLIENT_AUTH_SSL_CLIENT_AUTH] = "required"

\* the scenario of the specification: server class "s", override "o"
C3_Witness ==
    /\ out.op = "add_volume_and_volume_mounts"
    /\ AuthOverride(sec) /\ sec.server_secret_class = Some("s")
    /\ \E v \in VolumesNamed(out.value, STACKABLE_TLS_KEYSTORE_SERVER_MOUNT_DIR_NAME) :
           v.secret_class = "o"

\* the plan the claim C4 describes, step by step
ExpectedPlan(s) ==
    (IF ServerTls(s) /\ ~AuthResolved(s)
     THEN import_system_truststore(STACKABLE_TLS_KEYSTORE_SERVER_DIR) ELSE <<>>)
    \o (IF AuthResolved(s) \/ ServerTls(s)
        THEN import_keystore(STACKABLE_TLS_KEYSTORE_SERVER_MOUNT_DIR,
                             STACKABLE_TLS_KEYSTORE_SERVER_DIR) ELSE <<>>)
    \o (IF AuthResolved(s) \/ ServerTls(s)
        THEN import_truststore(STACKABLE_TLS_KEYSTORE_SERVER_MOUNT_DIR,
                               STACKABLE_TLS_KEYSTORE_SERVER_DIR) ELSE <<>>)
    \o (IF InternalTls(s)
        THEN import_keystore(STACKABLE_TLS_KEYSTORE_INTERNAL_MOUNT_DIR,
                             STACKABLE_TLS_KEYSTORE_INTERNAL_DIR)
             \o import_truststore(STACKABLE_TLS_KEYSTORE_INTERNAL_MOUNT_DIR,
                                  STACKABLE_TLS_KEYSTORE_INTERNAL_DIR)
        ELSE <<>>)

\* the commands that read from or write into a directory of the external
\* (resp. internal) scope
ExternalCommands ==
    {import_system_truststore(STACKABLE_TLS_KEYSTORE_SERVER_DIR)[i] : i \in 1..2}
    \cup {import_keystore(STACKABLE_TLS_KEYSTORE_SERVER_MOUNT_DIR,
                          STACKABLE_TLS_KEYSTORE_SERVER_DIR)[i] : i \in 1..2}
    \cup {import_truststore(STACKABLE_TLS_KEYSTORE_SERVER_MOUNT_DIR,
                            STACKABLE_TLS_KEYSTORE_SERVER_DIR)[i] : i \in 1..2}
InternalCommands ==
    {import_keystore(STACKABLE_TLS_KEYSTORE_INTERNAL_MOUNT_DIR,
                     STACKABLE_TLS_KEYSTORE_INTERNAL_DIR)[i] : i \in 1..2}
    \cup {import_truststore(STACKABLE_TLS_KEYSTORE_INTERNAL_MOUNT_DIR,
                            STACKABLE_TLS_KEYSTORE_INTERNAL_DIR)[i] : i \in 1..2}

\* the directories truststores are imported from and into
MountDirs == {STACKABLE_TLS_KEYSTORE_SERVER_MOUNT_DIR, STACKABLE_TLS_KEYSTORE_INTERNAL_MOUNT_DIR}
StoreDirs == {STACKABLE_TLS_KEYSTORE_SERVER_DIR, STACKABLE_TLS_KEYSTORE_INTERNAL_DIR}

\* C4: the plan of prepare_container_command_args() is, in this order, the
\* system truststore import (only with server TLS and without an
\* authentication class), the external keystore import, the external
\* truststore import (both iff authentication or server TLS), the internal
\* keystore and truststore import (iff internal TLS).  No internal step
\* precedes an external step, and no truststore import into a destination
\* precedes the system truststore import into that destination.
C4_PlanOrder ==
    /\ out.op = "prepare_container_command_args" =>
        /\ out.value = ExpectedPlan(sec)
        /\ \A i, j \in DOMAIN out.value :
               (out.value[i] \in InternalCommands /\ out.value[j] \in ExternalCommands)
                   => j < i
        /\ \A d \in StoreDirs : \A m \in MountDirs :
               \A i \in Positions(out.value, import_truststore(m, d)[2]) :
                   \A j \in Positions(out.value, import_system_truststore(d)[2]) : j < i
    \* the commands of command.rs keep the same order in their one truststore
    /\ out.op = "prepare_container_cmd_args" =>
        LET list == prepare_container_cmd_list(kafka) IN
        /\ out.value = join(list, " && ")
        /\ \A i \in Positions(list, create_key_and_trust_store(
                                        STACKABLE_TLS_CERTS_DIR, "stackable-ca-cert")[2]) :
               \E j \in Positions(list, import_system_truststore(STACKABLE_TLS_CERTS_DIR)[2]) :
                   j < i

\* server TLS without authentication and with internal TLS: all five imports
C4_Witness ==
    /\ out.op = "prepare_container_command_args"
    /\ ServerTls(sec) /\ ~AuthResolved(sec) /\ InternalTls(sec)
    /\ Len(out.value) = 10

\* C5: config_settings() never has both a client_auth key and a plain client
\* key; with a resolved TLS authentication class it has all client_auth keys
\* (client.auth = required) and no plain client key, also when
\* server_secret_class is set; with only server_secret_class it has the plain
\* client keys and no client_auth key.
C5_ClientBranchesExclusive ==
    out.op = "config_settings" =>
        LET keys == DOMAIN out.value IN
        /\ ~(keys \cap ClientAuthKeys # {} /\ keys \cap ClientKeys # {})
        /\ AuthResolved(sec) =>
               /\ ClientAuthKeys \subseteq keys
               /\ keys \cap ClientKeys = {}
               /\ out.value[CLIENT_AUTH_SSL_CLIENT_AUTH] = "required"
        /\ (ServerTls(sec) /\ ~AuthResolved(sec)) =>
               /\ ClientKeys \subseteq keys
               /\ keys \cap ClientAuthKeys = {}

\* both an authentication class and a server secret class are set
C5_Witness ==
    /\ out.op = "config_settings"
    /\ AuthResolved(sec) /\ ServerTls(sec)
    /\ ClientAuthKeys \subseteq DOMAIN out.value

\* C6: without server_secret_class and without a resolved authentication
\* class, for every internal_secret_class: tls_enabled() is false, the client
\* port is the plaintext port 9092 and config_settings() has no key of the
\* client scope; with internal_secret_class = "tls" the internal port is the
\* secure port and the only store keys are those of the internal scope.
C6_NoClientTlsWithoutServerOrAuth ==
    (out.op \in {"port_facts", "config_settings"}
        /\ ~ServerTls(sec) /\ ~AuthResolved(sec)) =>
        /\ out.op = "port_facts" =>
            /\ out.value.tls_enabled = FALSE
            /\ out.value.client_port = 9092
            /\ sec.internal_secret_class = "tls" => out.value.internal_port = 19093
        /\ out.op = "config_settings" =>
            /\ DOMAIN out.value \cap (ClientKeys \cup ClientAuthKeys) = {}
            /\ sec.internal_secret_class = "tls" =>
                   DOMAIN out.value = InternalKeys \cup {INTER_BROKER_LISTENER_NAME}

\* the scenario of the specification: no server class, no authentication,
\* internal secret class "tls"
C6_Witness ==
    /\ out.op = "port_facts"
    /\ ~ServerTls(sec) /\ ~AuthResolved(sec) /\ sec.internal_secret_class = "tls"
    /\ out.value.client_port = 9092 /\ out.value.internal_port = 19093

\* C7: client_port() and client_port_name() return the secure pair
\* (9093, "kafka-tls") exactly when TLS is enabled and the plaintext pair
\* (9092, "kafka") otherwise; port and name are always of the same pair.
C7_ClientPortAndNameSwitch ==
    out.op = "port_facts" =>
        LET pair == <<out.value.client_port, out.value.client_port_name>> IN
        /\ pair \in {<<9093, "kafka-tls">>, <<9092, "kafka">>}
        /\ pair = <<9093, "kafka-tls">> <=> (AuthResolved(sec) \/ ServerTls(sec))
        /\ pair = <<9093, "kafka-tls">> <=> out.value.tls_enabled

\* the secure pair is selected because of the server secret class alone
C7_Witness ==
    /\ out.op = "port_facts"
    /\ ServerTls(sec) /\ ~AuthResolved(sec)
    /\ out.value.client_port = 9093 /\ out.value.client_port_name = "kafka-tls"

\* C8: internal_port() is the secure internal port 19093 exactly when
\* internal_secret_class is not the empty string, else 19092; with the empty
\* string there is no internal plan step, no internal config key and no
\* internal volume or volume mount.
C8_EmptyInternalClassDisablesInternalTls ==
    /\ out.op = "port_facts" =>
        /\ out.value.internal_port = 19093 <=> sec.internal_secret_class # ""
        /\ out.value.internal_port = 19092 <=> sec.internal_secret_class = ""
    /\ (out.op = "prepare_container_command_args" /\ sec.internal_secret_class = "") =>
        \A i \in DOMAIN out.value : out.value[i] \notin InternalCommands
    /\ (out.op = "config_settings" /\ sec.internal_secret_class = "") =>
        DOMAIN out.value \cap InternalKeys = {}
    /\ (out.op = "add_volume_and_volume_mounts" /\ sec.internal_secret_class = "") =>
        /\ VolumeNames(out.value) \cap InternalVolumeNames = {}
        /\ \A container \in {out.value.cb_prepare, out.value.cb_kcat_prober,
                             out.value.cb_kafka} :
               \A m \in MountsOf(container) : m.name \notin InternalVolumeNames

\* internal TLS is switched off explicitly while client TLS stays on
C8_Witness ==
    /\ out.op = "prepare_container_command_args"
    /\ sec.internal_secret_class = ""
    /\ ServerTls(sec)
    /\ Len(out.value) > 0

\* C9: two KafkaTlsSecurity values that differ only in internal_secret_class
\* have the same client_port(), client_port_name() and tls_enabled().
C9_InternalTlsDoesNotChangeClientPort ==
    out.op = "port_facts" =>
        \A i \in InternalSecretClasses :
            LET other == [sec EXCEPT !.internal_secret_class = i] IN
            /\ client_port(other) = out.value.client_port
            /\ client_port_name(other) = out.value.client_port_name
            /\ tls_enabled(other) = out.value.tls_enabled

\* internal TLS is on while the client port is the plaintext port
C9_Witness ==
    /\ out.op = "port_facts"
    /\ InternalTls(sec)
    /\ out.value.client_port = 9092 /\ out.value.internal_port = 19093

\* the internal keys of compute_files
CrdInternalKeys ==
    InternalKeys \cup {INTER_SSL_ENDPOINT_IDENTIFICATION_ALGORITHM}

\* C10: the server.properties map has the internal store keys and the
\* internal client.auth key exactly when internal TLS is enabled, whichever
\* client branch is taken, and it always has inter.broker.listener.name.
C10_InternalKeysIffInternalTls ==
    /\ out.op = "config_settings" =>
        /\ INTER_BROKER_LISTENER_NAME \in DOMAIN out.value
        /\ IF InternalTls(sec)
           THEN /\ InternalKeys \subseteq DOMAIN out.value
                /\ out.value[INTER_SSL_CLIENT_AUTH] = "required"
           ELSE DOMAIN out.value \cap InternalKeys = {}
    /\ (out.op = "compute_files" /\ out.arg = SERVER_PROPERTIES_FILE) =>
        /\ INTER_BROKER_LISTENER_NAME \in DOMAIN out.value
        /\ IF kafka.spec.config.internal_tls # None
           THEN /\ InternalKeys \subseteq DOMAIN out.value
                /\ out.value[INTER_SSL_CLIENT_AUTH] = Some("required")
           ELSE DOMAIN out.value \cap CrdInternalKeys = {}

\* internal TLS is on while no client branch is taken
C10_Witness ==
    /\ out.op = "config_settings"
    /\ InternalTls(sec) /\ ~AuthResolved(sec) /\ ~ServerTls(sec)
    /\ InternalKeys \subseteq DOMAIN out.value

\* the two authorization keys
AuthorizationKeys == {"authorizer.class.name", "opa.authorizer.metrics.enabled"}

\* C11: compute_files emits the two authorization keys for server.properties
\* exactly when an authorization backend (opa) is configured, with their
\* fixed values and whatever the TLS settings are; no other file has them.
C11_AuthorizationKeysIffOpa ==
    out.op = "compute_files" =>
        IF out.arg = SERVER_PROPERTIES_FILE /\ kafka.spec.opa # None
        THEN /\ AuthorizationKeys \subseteq DOMAIN out.value
             /\ out.value["authorizer.class.name"]
                    = Some("org.openpolicyagent.kafka.OpaAuthorizer")
             /\ out.value["opa.authorizer.metrics.enabled"] = Some("true")
        ELSE DOMAIN out.value \cap AuthorizationKeys = {}

\* authorization is configured while client TLS is switched off
C11_Witness ==
    /\ out.op = "compute_files" /\ out.arg = SERVER_PROPERTIES_FILE
    /\ kafka.spec.opa # None /\ kafka.spec.config.tls = None
    /\ AuthorizationKeys \subseteq DOMAIN out.value

----------------------------------------------------------------------------
(* Properties of the resources of a rolegroup *)

\* the fragments of the three layers as the cluster object declares them
RoleLayer == IF kafka.spec.brokers = None THEN NoResources
             ELSE unwrap(kafka.spec.brokers).config.resources
RolegroupLayer(group_name) ==
    IF kafka.spec.brokers = None THEN NoResources
    ELSE IF group_name \notin DOMAIN unwrap(kafka.spec.brokers).role_groups
    THEN NoResources
    ELSE unwrap(kafka.spec.brokers).role_groups[group_name].config.resources

\* an entry of a map of quantities as an Option
Entry(map, key) == IF key \in DOMAIN map THEN Some(map[key]) ELSE None

\* the fields of the merged configuration as the result of resources() shows them
Observed(value) ==
    Resources(Entry(value.pod_resources.requests, "cpu"),
              Entry(value.pod_resources.limits, "cpu"),
              Entry(value.pod_resources.limits, "memory"),
              Entry(value.pvcs[1].requests, "storage"),
              value.pvcs[1].storage_class_name,
              value.pvcs[1].selector)

\* the value of a field by precedence: rolegroup, then role, then default
Pick(rolegroup, role, default) ==
    IF rolegroup # None THEN rolegroup ELSE IF role # None THEN role ELSE default

\* C12: every field of the merged resources is the rolegroup value if the
\* rolegroup sets it, else the role value if the role sets it, else the
\* default (1Gi for the capacity of log-dirs, unset for the other fields).
C12_ThreeTierPrecedence ==
    out.op = "resources" =>
        LET g == RolegroupLayer(out.arg)
            r == RoleLayer
        IN  /\ Len(out.value.pvcs) = 1
            /\ Observed(out.value) =
                 Resources(Pick(g.cpu.min, r.cpu.min, None),
                           Pick(g.cpu.max, r.cpu.max, None),
                           Pick(g.memory.limit, r.memory.limit, None),
                           Pick(g.storage.log_dirs.capacity,
                                r.storage.log_dirs.capacity, Some("1Gi")),
                           Pick(g.storage.log_dirs.storage_class,
                                r.storage.log_dirs.storage_class, None),
                           Pick(g.storage.log_dirs.selectors,
                                r.storage.log_dirs.selectors, None))
            /\ out.value.pod_resources.requests
                   = [k \in DOMAIN out.value.pod_resources.requests |->
                        IF k = "cpu" THEN unwrap(Pick(g.cpu.min, r.cpu.min, None))
                        ELSE unwrap(Pick(g.memory.limit, r.memory.limit, None))]

\* the role sets the capacity and the cpu limit, the rolegroup only the cpu
\* limit: the capacity of the role beats the default, the rolegroup the role
C12_Witness ==
    /\ out.op = "resources" /\ out.arg = "default"
    /\ RoleLayer.storage.log_dirs.capacity = Some("role")
    /\ RoleLayer.cpu.max = Some("role")
    /\ RolegroupLayer("default").storage.log_dirs.capacity = None
    /\ RolegroupLayer("default").cpu.max = Some("rolegroup")
    /\ out.value.pvcs[1].requests["storage"] = "role"
    /\ out.value.pod_resources.limits["cpu"] = "rolegroup"

\* the result is a fixed point of the merge with each lower layer
C13_Remerge ==
    out.op = "resources" =>
        LET merged == Observed(out.value) IN
        /\ merge(merged, default_resources) = merged
        /\ merge(merged, merge(RoleLayer, default_resources)) = merged
        /\ merge(merged, RoleLayer) = merged

\* two calls for the same rolegroup return the same result
C13_SameResult ==
    (out.op = "resources" /\ out'.op = "resources" /\ out'.arg = out.arg)
        => out'.value = out.value

\* C13: the merge does not drift: resources() computed twice from the same
\* defaults, role and rolegroup gives the same result, and merging the
\* merged result again with the same lower layers leaves it unchanged.
C13_MergeIdempotent == []C13_Remerge /\ [][C13_SameResult]_vars

\* no layer sets the capacity: the merged result has the default, which the
\* merge with the defaults keeps
C13_Witness ==
    /\ out.op = "resources" /\ out.arg = "default"
    /\ RoleLayer.storage.log_dirs.capacity = None
    /\ RolegroupLayer("default").storage.log_dirs.capacity = None
    /\ RoleLayer.cpu.min = Some("role")
    /\ Observed(out.value).storage.log_dirs.capacity = Some("1Gi")

\* C14: the merge is associative along the chain: the rolegroup merged over
\* (the role over the defaults), which is what resources() computes, equals
\* (the rolegroup over the role) merged over the defaults.
C14_MergeAssociative ==
    out.op = "resources" =>
        Observed(out.value)
            = merge(merge(RolegroupLayer(out.arg), RoleLayer), default_resources)

\* the role sets a capacity that the rolegroup does not set
C14_Witness ==
    /\ out.op = "resources" /\ out.arg = "default"
    /\ kafka.spec.brokers # None
    /\ "default" \in DOMAIN unwrap(kafka.spec.brokers).role_groups
    /\ RoleLayer.storage.log_dirs.capacity = Some("role")
    /\ RolegroupLayer("default").storage.log_dirs.capacity = None
    /\ RolegroupLayer("default").memory.limit = Some("rolegroup")

\* the fields a fully populated configuration of a broker needs
RequiredFieldsUnset(res) ==
    \/ res.cpu.min = None
    \/ res.cpu.max = None
    \/ res.memory.limit = None
    \/ res.storage.log_dirs.capacity = None

\* C15: when a required field is still unset after the three layers, the
\* merge returns FragmentValidationFailure and no concrete configuration.
C15_UnsetRequiredFieldIsRejected ==
    out.op = "resources" =>
        (RequiredFieldsUnset(merge(merge(RolegroupLayer(out.arg), RoleLayer),
                                   default_resources))
            => out.value = Err("FragmentValidationFailure"))

----------------------------------------------------------------------------
(* Properties of the pods of the cluster *)

\* the rolegroups of the cluster object
RoleGroupsOf == IF kafka.spec.brokers = None THEN EmptyMap
                ELSE unwrap(kafka.spec.brokers).role_groups

\* the service name of a rolegroup
ServiceName(rolegroup_name) == "simple-kafka-broker-" \o rolegroup_name

\* the position of a rolegroup name in the lexicographic order
Rank(rolegroup_name) ==
    CHOOSE i \in 1..Len(RolegroupNames) : RolegroupNames[i] = rolegroup_name

\* the rolegroup a pod belongs to
RolegroupOf(pod) ==
    CHOOSE g \in DOMAIN RoleGroupsOf : pod.role_group_service_name = ServiceName(g)

\* the replicas of a rolegroup, none when unset
ReplicasOf(rolegroup_name) ==
    IF RoleGroupsOf[rolegroup_name].replicas = None THEN 0
    ELSE unwrap(RoleGroupsOf[rolegroup_name].replicas)

\* the pods of one rolegroup in the order pods() lists them
PodsOfRolegroup(rolegroup_name) ==
    SelectSeq(out.value.value,
              LAMBDA p : p.role_group_service_name = ServiceName(rolegroup_name))

RECURSIVE SumOfReplicas(_)
SumOfReplicas(rolegroup_names) ==
    IF rolegroup_names = {} THEN 0
    ELSE LET g == CHOOSE x \in rolegroup_names : TRUE
         IN  ReplicasOf(g) + SumOfReplicas(rolegroup_names \ {g})

\* C16: pods() lists the rolegroups in the lexicographic order of their
\* names, whatever the order in which the map of the rolegroups hands them
\* out.
C16_RolegroupsSorted ==
    (out.op = "pods" /\ out.value.ok) =>
        LET listed == out.value.value IN
        /\ \A p \in 1..Len(listed) :
              \E g \in DOMAIN RoleGroupsOf :
                  listed[p].role_group_service_name = ServiceName(g)
        /\ \A p, q \in 1..Len(listed) :
              p < q => Rank(RolegroupOf(listed[p])) <= Rank(RolegroupOf(listed[q]))

\* the map hands out "b" before "ab" before "a", all with pods, and the
\* pods of "a" come first and those of "b" last
C16_Witness ==
    /\ out.op = "pods" /\ out.value.ok
    /\ out.arg = <<"b", "ab", "a">>
    /\ \A g \in {"a", "ab", "b"} : ReplicasOf(g) >= 1
    /\ out.value.value[1].role_group_service_name = ServiceName("a")
    /\ out.value.value[Len(out.value.value)].role_group_service_name = ServiceName("b")

\* C17: a rolegroup with n replicas gets exactly n pods, numbered 0 to n-1
\* in increasing order, a rolegroup without replicas gets none, and the
\* number of pods is the sum of the replicas of the rolegroups.
C17_PodsPerRolegroup ==
    (out.op = "pods" /\ out.value.ok) =>
        /\ \A g \in DOMAIN RoleGroupsOf :
              /\ Len(PodsOfRolegroup(g)) = ReplicasOf(g)
              /\ \A n \in 1..ReplicasOf(g) :
                    /\ PodsOfRolegroup(g)[n].pod_name
                          = ServiceName(g) \o "-" \o ToString(n - 1)
                    /\ PodsOfRolegroup(g)[n].namespace = unwrap(kafka.metadata.namespace)
        /\ Len(out.value.value) = SumOfReplicas(DOMAIN RoleGroupsOf)

\* one rolegroup with two replicas, one with unset replicas, one with one
C17_Witness ==
    /\ out.op = "pods" /\ out.value.ok
    /\ DOMAIN RoleGroupsOf = {"a", "ab", "b"}
    /\ RoleGroupsOf["a"].replicas = Some(2)
    /\ RoleGroupsOf["ab"].replicas = None
    /\ RoleGroupsOf["b"].replicas = Some(1)
    /\ Len(out.value.value) = 3
    /\ out.value.value[2].pod_name = "simple-kafka-broker-a-1"
    /\ out.value.value[3].pod_name = "simple-kafka-broker-b-0"

\* C18: pods() fails exactly when the cluster object has no namespace, with
\* NoNamespace and without a pod; with a namespace it succeeds, also
\* without a brokers role or with no rolegroup, then with an empty list.
C18_FailsIffNoNamespace ==
    out.op = "pods" =>
        /\ ~out.value.ok <=> kafka.metadata.namespace = None
        /\ ~out.value.ok => (out.value.err = "NoNamespace" /\ out.value.value = <<>>)
        /\ (kafka.metadata.namespace # None /\ DOMAIN RoleGroupsOf = {})
              => out.value = Ok(<<>>)

\* no namespace and no brokers role: pods() fails all the same
C18_Witness ==
    /\ out.op = "pods"
    /\ kafka.metadata.namespace = None
    /\ kafka.spec.brokers = None
    /\ out.value = Err("NoNamespace")

----------------------------------------------------------------------------
(* Properties of the resolution of the authentication classes *)

\* the reference at position i does not resolve to a class the operator
\* supports
ReferenceFails(i) ==
    LET class == lookup_authentication_class(kafka.spec.cluster_config.authentication[i])
    IN  ~class.ok \/ class.value.provider # "Tls"

AnyReferenceFails ==
    \E i \in 1..Len(kafka.spec.cluster_config.authentication) : ReferenceFails(i)

\* the cause of the first reference that fails
FirstFailure ==
    LET refs == kafka.spec.cluster_config.authentication
        i == CHOOSE n \in 1..Len(refs) :
                 ReferenceFails(n) /\ \A m \in 1..(n - 1) : ~ReferenceFails(m)
    IN  CASE refs[i] \in {"tls-plain", "tls-o", "ldap"} -> "AuthenticationProviderNotSupported"
          [] refs[i] = "unreachable" -> "TransportError"
          [] OTHER -> "NotFound"

\* once the resolution was tried and a reference fails, the pass has ended
\* with the error and without a KafkaTlsSecurity
C19_FailureIsReported ==
    (pc # "parsed" /\ AnyReferenceFails) =>
        /\ pc = "failed"
        /\ security = None
        /\ error = Some([variant |-> "InvalidAuthenticationClassConfiguration",
                         source |-> FirstFailure])
        /\ out.op \notin {"port_facts", "prepare_container_command_args",
                          "add_volume_and_volume_mounts", "config_settings"}

\* a failed resolution stays failed: no step tries it again
C19_NoRetry ==
    pc = "failed" => (pc' = "failed" /\ security' = None /\ error' = error)

\* C19: when a referenced authentication class does not resolve,
\* new_from_kafka_cluster returns InvalidAuthenticationClassConfiguration
\* with the cause of the resolver; it is tried once, not again, and no
\* KafkaTlsSecurity comes out of it.
C19_ResolutionFailureSurfaces == []C19_FailureIsReported /\ [][C19_NoRetry]_vars

\* the first reference resolves, the second names a class that is missing
C19_Witness ==
    /\ kafka.spec.cluster_config.authentication = <<"tls-plain", "missing">>
    /\ pc = "failed"
    /\ security = None
    /\ error = Some([variant |-> "InvalidAuthenticationClassConfiguration",
                     source |-> "NotFound"])

\* the outputs derived of the resolved security settings
SecurityOps == {"port_facts", "prepare_container_command_args",
                "add_volume_and_volume_mounts", "config_settings"}

\* C20: every port fact, command plan, configuration and volume list was
\* produced after the resolution of the authentication classes ended with
\* success; none is produced before it ended or after it failed.
C20_OutputsOnlyAfterResolution ==
    /\ out.op \in SecurityOps =>
          /\ pc = "resolved"
          /\ security # None
          /\ error = None
          /\ ~AnyReferenceFails
    /\ pc \in {"parsed", "failed"} => (security = None /\ out.op \notin SecurityOps)

\* a configuration produced from a cluster object with a reference, after
\* the reference resolved
C20_Witness ==
    /\ out.op = "config_settings"
    /\ kafka.spec.cluster_config.authentication = <<"tls-o">>
    /\ pc = "resolved"
    /\ unwrap(security).resolved_authentication_classes # <<>>

----------------------------------------------------------------------------
(* Properties of the init phase *)

\* a step that failed is the last that ran and fails the init phase, and a
\* successful init phase has run every step with success
C21_NoPartialSuccess ==
    /\ Len(init_phase.exits) <= Len(init_phase.steps)
    /\ \A i \in 1..Len(init_phase.exits) :
          init_phase.exits[i] # 0 =>
              (i = Len(init_phase.exits) /\ init_phase.status = "failed")
    /\ init_phase.status = "succeeded" =>
          /\ Len(init_phase.exits) = Len(init_phase.steps)
          /\ \A i \in 1..Len(init_phase.exits) : init_phase.exits[i] = 0

\* a failed init phase runs nothing more
C21_FailedStays == init_phase.status = "failed" => init_phase' = init_phase

\* C21: in the init phase a step that fails stops the execution: no later
\* step runs, the init phase ends as failed, and the init phase never
\* succeeds with a step that failed or did not run.
C21_StepFailureAborts == []C21_NoPartialSuccess /\ [][C21_FailedStays]_vars

\* the third of the steps of the security settings fails and steps are left
C21_Witness ==
    /\ is_some(security)
    /\ init_phase.steps = prepare_container_command_args(unwrap(security))
    /\ init_phase.exits = <<0, 0, 1>>
    /\ Len(init_phase.steps) > 3
    /\ init_phase.status = "failed"

----------------------------------------------------------------------------
(* Reading the commands: the words of a command line, the files a command  *)
(* reads and writes, and the passwords it is given                         *)

RECURSIVE next_space(_, _)
\* the position of the first space of s at or after i, Len(s) + 1 if none
next_space(s, i) ==
    IF i > Len(s) THEN i
    ELSE IF SubSeq(s, i, i) = " " THEN i
    ELSE next_space(s, i + 1)

RECURSIVE words_from(_, _)
words_from(s, i) ==
    IF i > Len(s) THEN <<>>
    ELSE <<SubSeq(s, i, next_space(s, i) - 1)>> \o words_from(s, next_space(s, i) + 1)

\* the words of a command line
Words(s) == words_from(s, 1)

RECURSIVE last_slash(_, _)
\* the position of the last "/" of s at or before i, 0 if none
last_slash(s, i) ==
    IF i = 0 THEN 0
    ELSE IF SubSeq(s, i, i) = "/" THEN i
    ELSE last_slash(s, i - 1)

\* the directory of a file
DirectoryOf(path) == SubSeq(path, 1, last_slash(path, Len(path)) - 1)

RECURSIVE commands_of(_, _)
\* the commands of the words of an and-list; current is the command so far
commands_of(words, current) ==
    IF words = <<>> THEN (IF current = <<>> THEN <<>> ELSE <<current>>)
    ELSE IF Head(words) = "&&" THEN <<current>> \o commands_of(Tail(words), <<>>)
    ELSE commands_of(Tail(words), Append(current, Head(words)))

\* the commands, as words, of a command line joined with " && "
CommandsOfLine(line) == commands_of(Words(line), <<>>)

\* the commands, as words, of a list of command lines
CommandsOfList(lines) == [i \in DOMAIN lines |-> Words(lines[i])]

\* the values that follow the option in the command
OptionValues(command, option) ==
    {command[i + 1] : i \in {j \in 1..(Len(command) - 1) : command[j] = option}}

\* the files a command reads as its source
SourceFiles(command) ==
    CASE command[1] = "keytool" /\ "-importkeystore" \in {command[i] : i \in DOMAIN command}
            -> OptionValues(command, "-srckeystore")
      [] command[1] = "keytool" /\ "-importcert" \in {command[i] : i \in DOMAIN command}
            -> OptionValues(command, "-file")
      [] command[1] = "openssl"
            -> OptionValues(command, "-in") \cup OptionValues(command, "-inkey")
      [] command[1] = "cat"
            -> {command[i] : i \in {j \in 2..Len(command) :
                                       \A k \in 2..j : command[k] # ">"}}
      [] OTHER -> {}

\* the files a command writes
DestinationFiles(command) ==
    CASE command[1] = "keytool" /\ "-importkeystore" \in {command[i] : i \in DOMAIN command}
            -> OptionValues(command, "-destkeystore")
      [] command[1] = "keytool" /\ "-importcert" \in {command[i] : i \in DOMAIN command}
            -> OptionValues(command, "-keystore")
      [] command[1] = "openssl"
            -> OptionValues(command, "-out")
      [] command[1] = "cat"
            -> OptionValues(command, ">")
      [] OTHER -> {}

\* the directories a command writes into
WrittenDirectories(command) ==
    IF command[1] \in {"chown", "chmod"} THEN {command[Len(command)]}
    ELSE {DirectoryOf(f) : f \in DestinationFiles(command)}

\* the password a command protects its destination store with
DestinationPasswords(command) ==
    OptionValues(command, "-deststorepass")
        \cup OptionValues(command, "-storepass")
        \cup OptionValues(command, "--passout")

\* the directories the commands of a plan read their sources from
SourceDirectories(commands) ==
    UNION {{DirectoryOf(f) : f \in SourceFiles(commands[i])} : i \in DOMAIN commands}

\* the commands of the plan of the last operation
PlannedCommands ==
    IF out.op = "prepare_container_command_args" THEN CommandsOfList(out.value)
    ELSE IF out.op = "prepare_container_cmd_args" THEN CommandsOfLine(out.value)
    ELSE <<>>

\* the commands of a plan leave every directory they read a source from
\* unwritten, give every destination store the placeholder password and
\* read the stores of the secret mounts with the empty password
SourcesUntouched(commands) ==
    \A i \in DOMAIN commands :
        /\ WrittenDirectories(commands[i]) \cap SourceDirectories(commands) = {}
        /\ \A f \in SourceFiles(commands[i]) : \A g \in DestinationFiles(commands[i]) :
              DirectoryOf(f) # DirectoryOf(g)
        /\ DestinationFiles(commands[i]) # {} =>
              DestinationPasswords(commands[i]) \subseteq {SSL_STORE_PASSWORD, "pass:" \o SSL_STORE_PASSWORD}
        /\ \A f \in SourceFiles(commands[i]) :
              DirectoryOf(f) \in MountDirs =>
                  OptionValues(commands[i], "-srcstorepass") = {"\"\""}

\* C22: no step of a plan writes into a directory the steps read their
\* sources from: every import reads from its source and writes into another,
\* writable directory, the destination store gets the placeholder password
\* and the mounted source store is read with the empty password.
C22_SourcesNeverWritten ==
    out.op \in {"prepare_container_command_args", "prepare_container_cmd_args"}
        => SourcesUntouched(PlannedCommands)

----------------------------------------------------------------------------
(* Properties of the rendering *)

\* the words that follow -destalias in a command, up to the next option
DestinationAlias(command) ==
    LET i == CHOOSE j \in DOMAIN command : command[j] = "-destalias"
    IN  <<command[i + 1], command[i + 2]>>

\* every truststore import of the plan leaves its alias to the shell: the
\* text has the command substitution, not a value
C23_AliasLeftToExecution ==
    out.op = "prepare_container_command_args" =>
        \A i \in DOMAIN PlannedCommands :
            "-srcalias" \in {PlannedCommands[i][j] : j \in DOMAIN PlannedCommands[i]}
                => DestinationAlias(PlannedCommands[i])
                       = <<"$(cat", "/proc/sys/kernel/random/uuid)">>

\* a second call on the same security settings returns what the first did
C23_SameRendering ==
    (/\ out.op \in {"config_settings", "prepare_container_command_args"}
     /\ out'.op = out.op
     /\ security' = security)
        => out'.value = out.value

\* the rendered output is what the security settings alone give: whatever
\* was rendered before, the configuration and the plan are the same
C23_RenderingOfSecurityOnly ==
    /\ out.op = "config_settings" =>
          \A k \in DOMAIN out.value :
              out.value[k] \in {"", SSL_STORE_PASSWORD, "PKCS12", "required", "none",
                                KafkaListenerName_Internal,
                                STACKABLE_TLS_KEYSTORE_SERVER_DIR \o "/keystore.p12",
                                STACKABLE_TLS_KEYSTORE_SERVER_DIR \o "/truststore.p12",
                                STACKABLE_TLS_KEYSTORE_INTERNAL_DIR \o "/keystore.p12",
                                STACKABLE_TLS_KEYSTORE_INTERNAL_DIR \o "/truststore.p12"}
    /\ C23_AliasLeftToExecution

\* C23: config_settings() and prepare_container_command_args() return the
\* same map and the same commands on every call for the same security
\* settings, and the alias of an imported truststore is generated when the
\* command runs: the rendered text holds the command substitution only.
C23_RenderingDeterministic == []C23_RenderingOfSecurityOnly /\ [][C23_SameRendering]_vars

\* a plan with the truststore imports of both scopes
C23_Witness ==
    /\ out.op = "prepare_container_command_args"
    /\ Cardinality({i \in DOMAIN PlannedCommands :
                       "-srcalias" \in {PlannedCommands[i][j] : j \in DOMAIN PlannedCommands[i]}}) = 2
    /\ is_some(sec.server_secret_class)

----------------------------------------------------------------------------
(* Properties of the defaults of the TLS configuration *)

\* C24: without a TLS configuration in the cluster object, the security
\* settings have the default internal secret class, which is not empty (so
\* internal TLS is on and the internal port is the secure one), and no
\* server secret class (so client TLS is on only with a resolved TLS
\* authentication class); with a TLS configuration both fields are taken
\* over as they are.
C24_TlsConfigDefaults ==
    is_some(security) =>
        /\ kafka.spec.cluster_config.tls = None =>
              /\ sec.internal_secret_class = "tls"
              /\ sec.internal_secret_class # ""
              /\ sec.server_secret_class = None
              /\ tls_internal_secret_class(sec) = Some("tls")
              /\ internal_port(sec) = 19093
              /\ tls_enabled(sec) <=> AuthResolved(sec)
        /\ kafka.spec.cluster_config.tls # None =>
              /\ sec.internal_secret_class
                     = unwrap(kafka.spec.cluster_config.tls).internal_secret_class
              /\ sec.server_secret_class
                     = unwrap(kafka.spec.cluster_config.tls).server_secret_class
        /\ out.op = "port_facts" /\ kafka.spec.cluster_config.tls = None =>
              /\ out.value.internal_port = 19093
              /\ out.value.tls_enabled <=> AuthResolved(sec)

\* no TLS configuration and no authentication: the port facts show internal
\* TLS on and client TLS off
C24_Witness ==
    /\ kafka.spec.cluster_config.tls = None
    /\ kafka.spec.cluster_config.authentication = <<>>
    /\ out.op = "port_facts"
    /\ out.value.internal_port = 19093
    /\ ~out.value.tls_enabled
    /\ sec.server_secret_class = None

----------------------------------------------------------------------------
(* Properties of the custom resource as read from YAML *)

\* C25: the client TLS secret class of a KafkaCluster is "tls" when config
\* or its tls field is left out, None only when tls is null, and the given
\* secretClass otherwise; the internal TLS secret class is None unless it is
\* given; and neither field changes the value of the other.
C25_CrdTlsDefaults ==
    LET config == out.arg IN
    /\ out.op = "client_tls_secret_class" =>
          /\ (~config.present \/ config.tls.kind = "omitted")
                => out.value = Some([secret_class |-> "tls"])
          /\ out.value = None <=> (config.present /\ config.tls.kind = "null")
          /\ (config.present /\ config.tls.kind = "value")
                => out.value = Some([secret_class |-> config.tls.value])
          /\ \A other \in YamlFields({"simple-kafka-internal-tls"}) :
                config.present =>
                    client_tls_secret_class(from_str([config EXCEPT !.internalTls = other]))
                        = out.value
    /\ out.op = "internal_tls_secret_class" =>
          /\ out.value = IF config.present /\ config.internalTls.kind = "value"
                         THEN Some([secret_class |-> config.internalTls.value])
                         ELSE None
          /\ \A other \in YamlFields({"simple-kafka-client-tls", "tls"}) :
                config.present =>
                    internal_tls_secret_class(from_str([config EXCEPT !.tls = other]))
                        = out.value

\* tls is null and internalTls is given: no client secret class
C25_Witness ==
    /\ out.op = "client_tls_secret_class"
    /\ out.arg.present
    /\ out.arg.tls = Null
    /\ out.arg.internalTls = Given("simple-kafka-internal-tls")
    /\ out.value = None

----------------------------------------------------------------------------
(* Agreement of the plan, the volumes and the configuration *)

\* the plan and the volumes of the security settings, whichever of the two
\* the last operation returned
PlanOf(s) == CommandsOfList(IF out.op = "prepare_container_command_args"
                            THEN out.value ELSE prepare_container_command_args(s))
BuildersOf(s) == IF out.op = "add_volume_and_volume_mounts"
                 THEN out.value ELSE add_volume_and_volume_mounts(s, NewBuilders)

\* the plan has an import that reads from the directory
ImportsFrom(plan, directory) ==
    \E i \in DOMAIN plan : \E f \in SourceFiles(plan[i]) : DirectoryOf(f) = directory

\* the builders have the secret volume of the mount, mounted in the prepare
\* container at the mount directory, and the writable directory of the stores
VolumesFor(b, mount_name, mount_dir, store_name, store_dir) ==
    /\ \E v \in VolumesNamed(b, mount_name) : v.kind = "ephemeral-secret"
    /\ VolumeMount(mount_name, mount_dir) \in MountsOf(b.cb_prepare)
    /\ VolumesNamed(b, store_name) # {}
    /\ VolumeMount(store_name, store_dir) \in MountsOf(b.cb_prepare)

\* some volume or mount of the scope is there
AnyVolumeFor(b, mount_name, store_name) ==
    \/ VolumesNamed(b, mount_name) # {}
    \/ VolumesNamed(b, store_name) # {}
    \/ \E m \in MountsOf(b.cb_prepare) : m.name \in {mount_name, store_name}

\* C26: for every security settings the plan imports from the keystore mount
\* of a scope exactly when the volumes of that scope are added: the secret
\* volume mounted at the directory the import reads from, and the writable
\* directory of the stores, both in the prepare container.
C26_PlanAndVolumesAgree ==
    (is_some(security)
        /\ out.op \in {"prepare_container_command_args", "add_volume_and_volume_mounts"}) =>
        /\ ImportsFrom(PlanOf(sec), STACKABLE_TLS_KEYSTORE_SERVER_MOUNT_DIR)
              => VolumesFor(BuildersOf(sec),
                            STACKABLE_TLS_KEYSTORE_SERVER_MOUNT_DIR_NAME,
                            STACKABLE_TLS_KEYSTORE_SERVER_MOUNT_DIR,
                            STACKABLE_TLS_KEYSTORE_SERVER_DIR_NAME,
                            STACKABLE_TLS_KEYSTORE_SERVER_DIR)
        /\ AnyVolumeFor(BuildersOf(sec), STACKABLE_TLS_KEYSTORE_SERVER_MOUNT_DIR_NAME,
                        STACKABLE_TLS_KEYSTORE_SERVER_DIR_NAME)
              => ImportsFrom(PlanOf(sec), STACKABLE_TLS_KEYSTORE_SERVER_MOUNT_DIR)
        /\ ImportsFrom(PlanOf(sec), STACKABLE_TLS_KEYSTORE_INTERNAL_MOUNT_DIR)
              => VolumesFor(BuildersOf(sec),
                            STACKABLE_TLS_KEYSTORE_INTERNAL_MOUNT_DIR_NAME,
                            STACKABLE_TLS_KEYSTORE_INTERNAL_MOUNT_DIR,
                            STACKABLE_TLS_KEYSTORE_INTERNAL_DIR_NAME,
                            STACKABLE_TLS_KEYSTORE_INTERNAL_DIR)
        /\ AnyVolumeFor(BuildersOf(sec), STACKABLE_TLS_KEYSTORE_INTERNAL_MOUNT_DIR_NAME,
                        STACKABLE_TLS_KEYSTORE_INTERNAL_DIR_NAME)
              => ImportsFrom(PlanOf(sec), STACKABLE_TLS_KEYSTORE_INTERNAL_MOUNT_DIR)

\* the configuration of the security settings, as returned by the last
\* operation if that was config_settings
ConfigOf(s) == IF out.op = "config_settings" THEN out.value ELSE config_settings(s)

\* the keys of a store in the configuration: location, password and type
StoreKeys ==
    {<<CLIENT_SSL_KEYSTORE_LOCATION, CLIENT_SSL_KEYSTORE_PASSWORD, CLIENT_SSL_KEYSTORE_TYPE>>,
     <<CLIENT_SSL_TRUSTSTORE_LOCATION, CLIENT_SSL_TRUSTSTORE_PASSWORD,
       CLIENT_SSL_TRUSTSTORE_TYPE>>,
     <<CLIENT_AUTH_SSL_KEYSTORE_LOCATION, CLIENT_AUTH_SSL_KEYSTORE_PASSWORD,
       CLIENT_AUTH_SSL_KEYSTORE_TYPE>>,
     <<CLIENT_AUTH_SSL_TRUSTSTORE_LOCATION, CLIENT_AUTH_SSL_TRUSTSTORE_PASSWORD,
       CLIENT_AUTH_SSL_TRUSTSTORE_TYPE>>,
     <<INTER_SSL_KEYSTORE_LOCATION, INTER_SSL_KEYSTORE_PASSWORD, INTER_SSL_KEYSTORE_TYPE>>,
     <<INTER_SSL_TRUSTSTORE_LOCATION, INTER_SSL_TRUSTSTORE_PASSWORD,
       INTER_SSL_TRUSTSTORE_TYPE>>}

\* C27: every store location of config_settings() is the destination file
\* of an import of prepare_container_command_args() for the same security
\* settings, its password is the destination password of that import, and
\* its type is PKCS12; the configuration has no location key besides these.
C27_ConfigAndPlanAgree ==
    (is_some(security)
        /\ out.op \in {"config_settings", "prepare_container_command_args"}) =>
        LET config == ConfigOf(sec)
            plan == PlanOf(sec)
        IN  /\ \A keys \in StoreKeys :
                  keys[1] \in DOMAIN config =>
                      /\ keys[2] \in DOMAIN config
                      /\ keys[3] \in DOMAIN config
                      /\ config[keys[3]] = "PKCS12"
                      /\ \E i \in DOMAIN plan :
                            /\ plan[i][1] = "keytool"
                            /\ DestinationFiles(plan[i]) = {config[keys[1]]}
                            /\ DestinationPasswords(plan[i]) = {config[keys[2]]}
                            /\ OptionValues(plan[i], "-deststoretype") \subseteq {"PKCS12", "pkcs12"}
            /\ \A key \in DOMAIN config :
                  (\E file \in {"/keystore.p12", "/truststore.p12"} :
                      \E d \in StoreDirs \cup MountDirs : config[key] = d \o file)
                      => \E keys \in StoreKeys : keys[1] = key

\* the configuration of client authentication and internal TLS: four stores
C27_Witness ==
    /\ out.op = "config_settings"
    /\ AuthResolved(sec) /\ InternalTls(sec)
    /\ out.value[CLIENT_AUTH_SSL_TRUSTSTORE_LOCATION]
           = STACKABLE_TLS_KEYSTORE_SERVER_DIR \o "/truststore.p12"
    /\ out.value[INTER_SSL_KEYSTORE_LOCATION]
           = STACKABLE_TLS_KEYSTORE_INTERNAL_DIR \o "/keystore.p12"
    /\ ImportsFrom(PlanOf(sec), STACKABLE_TLS_KEYSTORE_INTERNAL_MOUNT_DIR)

----------------------------------------------------------------------------
(* Agreement of the client security facts of the custom resource *)

\* the client store keys of compute_files
CrdClientStoreKeys ==
    {SSL_KEYSTORE_LOCATION, SSL_KEYSTORE_PASSWORD, SSL_KEYSTORE_TYPE,
     SSL_TRUSTSTORE_LOCATION, SSL_TRUSTSTORE_PASSWORD, SSL_TRUSTSTORE_TYPE}

\* the three facts for the cluster object, each as the last operation
\* returned it if the last operation was the one that gives it
SecureOf == IF out.op = "is_client_secure" THEN out.value ELSE is_client_secure(kafka)
ServerPropertiesOf ==
    IF out.op = "compute_files" /\ out.arg = SERVER_PROPERTIES_FILE THEN out.value
    ELSE compute_files(kafka, SERVER_PROPERTIES_FILE)
KcatOf == IF out.op = "kcat_container_cmd_args" THEN out.value
          ELSE kcat_container_cmd_args(kafka)

\* C28: for every combination of tls and client authentication of the
\* custom resource: when is_client_secure() is true, compute_files has the
\* client store keys (and ssl.client.auth = required with a client
\* authentication class) and kcat probes port 9093 with SSL; when it is
\* false, none of the keys is there and kcat probes port 9092.
C28_ClientSecurityFactsAgree ==
    (\/ out.op \in {"is_client_secure", "kcat_container_cmd_args"}
     \/ (out.op = "compute_files" /\ out.arg = SERVER_PROPERTIES_FILE)) =>
        LET args == {KcatOf[i] : i \in DOMAIN KcatOf} IN
        IF SecureOf
        THEN /\ CrdClientStoreKeys \subseteq DOMAIN ServerPropertiesOf
             /\ kafka.spec.config.client_authentication # None =>
                   /\ SSL_CLIENT_AUTH \in DOMAIN ServerPropertiesOf
                   /\ ServerPropertiesOf[SSL_CLIENT_AUTH] = Some("required")
             /\ "localhost:9093" \in args
             /\ "security.protocol=SSL" \in args
        ELSE /\ DOMAIN ServerPropertiesOf \cap (CrdClientStoreKeys \cup {SSL_CLIENT_AUTH}) = {}
             /\ "localhost:9092" \in args
             /\ "security.protocol=SSL" \notin args

====
